---- MODULE Spec2Model ----
(***************************************************************************)
(* One call of process_message (services/agent_orchestrator.py) against    *)
(* the document store: the query-level Chat Audit Log, the tool            *)
(* dispatcher with its permission / company / audit-logging wrappers, the  *)
(* two model calls, the persistence of the two Chat Messages and the       *)
(* finalize-update of the audit record.                                    *)
(*                                                                         *)
(* Texts are sequences of fragments (strings): an f-string is the sequence *)
(* of its literal and interpolated parts, and "x in text" is membership of *)
(* a fragment.  Python dicts are functions from keys to values.            *)
(***************************************************************************)
EXTENDS Integers, Sequences, FiniteSets, TLC

\* ------------------------------------------------------------------ bounds
\* the largest number of tool calls one model response requests
MaxToolCalls == 2

\* ------------------------------------------------------- python primitives
None == "None"

Truthy(v) == v # None /\ v # ""

\* dict.get(k)
Get(d, k) == IF k \in DOMAIN d THEN d[k] ELSE None

\* d[k] = v
SetKey(d, k, v) == [x \in (DOMAIN d) \cup {k} |-> IF x = k THEN v ELSE d[x]]

\* {k: v for k, v in d.items() if k not in keys}
DropKeys(d, keys) == [x \in (DOMAIN d) \ keys |-> d[x]]

EmptyDict == [x \in {} |-> None]

\* fragment f occurs in text t
Contains(t, f) == \E i \in DOMAIN t : t[i] = f

\* the outcome of a call: a value returned or an exception raised, with the
\* AI Tool Call Log records it inserted and the accesses it made, in order
Return(text, logs, events) ==
    [exc |-> None, text |-> text, logs |-> logs, events |-> events]

Raise(cls, msg, logs, events) ==
    [exc |-> cls, text |-> msg, logs |-> logs, events |-> events]

\* an access made while a tool runs: a permission check ("perm"), a company
\* scope check ("scope"), entering the tool body ("body"), a metadata lookup
\* ("meta"), a business-data query ("data"), a report-executor run ("run")
Event(kind, target, company) == <<kind, target, company>>

\* -------------------------------------------------- the frappe site's data
Users == {"Administrator", "alice"}

\* frappe.has_permission(doctype, ptype="read", user=user)
has_permission(doctype, user) ==
    \/ user = "Administrator"
    \/ user = "alice" /\ doctype \in {"GL Entry", "Report"}
    \/ user = "bob" /\ doctype \in {"Sales Invoice", "GL Entry"}

\* User Permission rows with allow = "Company"
UserPermissionCompanies(user) == IF user \in {"alice", "bob"} THEN {"CoA"} ELSE {}

\* frappe.defaults.get_user_default("Company", user)
get_user_default_company(user) == None

AllCompanies == {"CoA", "CoB"}

\* the Report documents of the site and their ref_doctype
ReportRefDoctype ==
    [r \in {"Sales Register", "General Ledger"} |->
        IF r = "Sales Register" THEN "Sales Invoice" ELSE "GL Entry"]

ReportExists(report_name) == report_name \in DOMAIN ReportRefDoctype

\* ------------------------------------------------------------- permissions
get_user_companies(user) ==
    IF user = "Administrator" THEN AllCompanies
    ELSE LET default_company == get_user_default_company(user)
         IN  UserPermissionCompanies(user) \cup
             (IF Truthy(default_company) THEN {default_company} ELSE {})

\* validate_company_access(company, user, throw=True): TRUE, or it throws
\* frappe.PermissionError
company_access_granted(company, user) ==
    \/ user = "Administrator"
    \/ get_user_companies(user) = {}
    \/ company \in get_user_companies(user)

CompanyAccessMessage(company) == <<"You do not have access to company ", company>>

\* validate_report_access(report_name, user, throw=True): "ok", "denied" (a
\* value FALSE that throws nothing), or the class of the exception thrown
validate_report_access(report_name, user) ==
    IF user = "Administrator" THEN "ok"
    ELSE IF ~ReportExists(report_name) THEN "DoesNotExistError"
    ELSE IF Truthy(ReportRefDoctype[report_name])
         THEN (IF has_permission(ReportRefDoctype[report_name], user)
               THEN "ok" ELSE "PermissionError")
         ELSE (IF has_permission("Report", user) THEN "ok" ELSE "denied")

\* ------------------------------------------------------------ audit_logger
NoText == <<>>

\* the keys of the model's universe that contain one of sensitive_keys
\* ("api_key", "password", "secret", "token", "credential", "authorization",
\* "auth") as a substring
SensitiveKeyNames == {"api_key", "auth_token"}

_sanitize_parameters(parameters) ==
    [k \in DOMAIN parameters |->
        IF k \in SensitiveKeyNames THEN "[REDACTED]" ELSE parameters[k]]

\* json.dumps of a dict of strings: the JSON object, a set of key/value pairs
json_dumps(d) == {<<k, d[k]>> : k \in DOMAIN d}

\* log_tool_call: the AI Tool Call Log records inserted (none when the insert
\* fails: the exception is logged and swallowed)
log_tool_call(session_id, audit_log_id, tool_name, parameters, result_status, error_details, records_returned, insert_ok) ==
    IF insert_ok
    THEN << [session_id       |-> session_id,
             audit_log_id     |-> audit_log_id,
             tool_name        |-> tool_name,
             parameters       |-> IF DOMAIN parameters # {}
                                  THEN json_dumps(_sanitize_parameters(parameters))
                                  ELSE {},
             execution_time_ms |-> "elapsed",
             result_status    |-> result_status,
             error_details    |-> error_details,
             records_returned |-> records_returned] >>
    ELSE << >>

\* --------------------------------------------------------------- base_tool
\* kwargs.get("user") or frappe.session.user
KwUser(kwargs, env) ==
    IF Truthy(Get(kwargs, "user")) THEN kwargs["user"] ELSE env.session_user

PermissionDeniedMessage(doctype) ==
    <<"You do not have ", "read", " permission for ", doctype>>

\* the wrapper of with_permission_check(doctype, "read") around `inner`
with_permission_check(doctype, kwargs, env, inner) ==
    LET user == KwUser(kwargs, env)
    IN  IF user # "Administrator"
        THEN IF ~has_permission(doctype, user)
             THEN Raise("PermissionDeniedError", PermissionDeniedMessage(doctype),
                        <<>>, <<Event("perm", doctype, None)>>)
             ELSE [inner EXCEPT !.events = <<Event("perm", doctype, None)>> \o @]
        ELSE inner

\* the wrapper of with_company_check() around `inner`
with_company_check(kwargs, env, inner) ==
    LET company == Get(kwargs, "company")
        user    == KwUser(kwargs, env)
    IN  IF Truthy(company) /\ user # "Administrator"
        THEN IF ~company_access_granted(company, user)
             THEN Raise("PermissionError", CompanyAccessMessage(company),
                        <<>>, <<Event("scope", "Company", company)>>)
             ELSE [inner EXCEPT !.events = <<Event("scope", "Company", company)>> \o @]
        ELSE inner

ResultStatus(exc) ==
    IF exc = None THEN "success"
    ELSE IF exc = "PermissionDeniedError" THEN "permission_denied"
    ELSE "error"

\* the wrapper of with_audit_logging(tool_name) around `inner`: the finally
\* block inserts one record after the function returned or raised
with_audit_logging(tool_name, kwargs, env, inner) ==
    LET session_id   == Get(kwargs, "session_id")
        audit_log_id == Get(kwargs, "audit_log_id")
        logged       == DropKeys(kwargs, {"session_id", "audit_log_id", "user"})
        new_logs     ==
            IF Truthy(session_id) /\ Truthy(audit_log_id)
            THEN log_tool_call(session_id, audit_log_id, tool_name, logged,
                               ResultStatus(inner.exc),
                               IF inner.exc = None THEN NoText ELSE inner.text,
                               0, env.log_insert_ok)
            ELSE << >>
    IN  [inner EXCEPT !.logs = @ \o new_logs]

\* func(**kwargs): Python binds the keywords to the signature before the body
\* runs, and raises TypeError for an unexpected or a missing one
CallWithKeywords(required, optional, kwargs, body) ==
    IF (DOMAIN kwargs) \subseteq (required \cup optional)
       /\ required \subseteq DOMAIN kwargs
    THEN [body EXCEPT !.events = <<Event("body", "", None)>> \o @]
    ELSE Raise("TypeError", <<"got an unexpected or missing keyword argument">>,
               <<>>, <<>>)

ContextKeys == {"session_id", "audit_log_id", "user"}

\* ----------------------------------------------------------- finance_tools
RunErrorText == "report executor failed"

\* format_report_for_ai(result, max_rows): the rendered table of the report
format_report_for_ai(report_name) == <<"Report: ", report_name>>

\* the body of get_financial_report
get_financial_report_body(kwargs, env) ==
    LET user      == Get(kwargs, "user")
        requested == Get(kwargs, "company")
        company   == IF Truthy(requested) THEN requested
                     ELSE get_user_default_company(user)
        lookup    == IF Truthy(requested) THEN <<>>
                     ELSE <<Event("meta", "DefaultValue", None)>>
        scope     == <<Event("scope", "Company", company)>>
        run       == <<Event("meta", "Fiscal Year", None),
                       Event("run", kwargs["report_name"], company)>>
    IN  IF ~Truthy(company)
        THEN Return(<<"Error: No company specified and no default company found for your user.">>,
                    <<>>, lookup)
        ELSE IF ~company_access_granted(company, user)
        THEN Raise("PermissionError", CompanyAccessMessage(company), <<>>,
                   lookup \o scope)
        ELSE IF env.run_ok
        THEN Return(format_report_for_ai(kwargs["report_name"]), <<>>,
                    lookup \o scope \o run)
        ELSE Return(<<"Error executing report: ", RunErrorText>>, <<>>,
                    lookup \o scope \o run)

get_financial_report(kwargs, env) ==
    with_permission_check("GL Entry", kwargs, env,
      with_company_check(kwargs, env,
        with_audit_logging("get_financial_report", kwargs, env,
          CallWithKeywords({"report_name", "from_date", "to_date"},
                           {"company", "periodicity"} \cup ContextKeys, kwargs,
                           get_financial_report_body(kwargs, env)))))

\* the body of get_revenue
get_revenue_body(kwargs, env) ==
    LET user      == Get(kwargs, "user")
        requested == Get(kwargs, "company")
        company   == IF Truthy(requested) THEN requested
                     ELSE get_user_default_company(user)
        lookup    == IF Truthy(requested) THEN <<>>
                     ELSE <<Event("meta", "DefaultValue", None)>>
    IN  Return(<<"Total Revenue from ", kwargs["from_date"], " to ", kwargs["to_date"],
                 " - Company: ", IF Truthy(company) THEN company ELSE "All companies">>,
               <<>>,
               lookup \o <<Event("data", "Sales Invoice", company),
                           Event("meta", "Company", company)>>)

get_revenue(kwargs, env) ==
    with_permission_check("Sales Invoice", kwargs, env,
      with_company_check(kwargs, env,
        with_audit_logging("get_revenue", kwargs, env,
          CallWithKeywords({"from_date", "to_date"}, {"company"} \cup ContextKeys,
                           kwargs, get_revenue_body(kwargs, env)))))

\* the body of get_expenses
get_expenses_body(kwargs, env) ==
    LET user      == Get(kwargs, "user")
        requested == Get(kwargs, "company")
        company   == IF Truthy(requested) THEN requested
                     ELSE get_user_default_company(user)
        lookup    == IF Truthy(requested) THEN <<>>
                     ELSE <<Event("meta", "DefaultValue", None)>>
    IN  Return(<<"Total Expenses from ", kwargs["from_date"], " to ", kwargs["to_date"],
                 " - Company: ", IF Truthy(company) THEN company ELSE "All companies">>,
               <<>>,
               lookup \o <<Event("data", "Account", company),
                           Event("data", "GL Entry", company),
                           Event("meta", "Company", company)>>)

get_expenses(kwargs, env) ==
    with_permission_check("GL Entry", kwargs, env,
      with_company_check(kwargs, env,
        with_audit_logging("get_expenses", kwargs, env,
          CallWithKeywords({"from_date", "to_date"}, {"company"} \cup ContextKeys,
                           kwargs, get_expenses_body(kwargs, env)))))

\* the keyword arguments get_profit_and_loss and get_balance_sheet pass on
ReportKwargs(kwargs, report_name, from_date, periodicity) ==
    [k \in {"report_name", "from_date", "to_date", "company", "periodicity",
            "session_id", "audit_log_id", "user"} |->
        CASE k = "report_name" -> report_name
          [] k = "from_date"   -> from_date
          [] k = "periodicity" -> periodicity
          [] OTHER             -> Get(kwargs, k)]

\* get_profit_and_loss: its body calls the wrapped get_financial_report
get_profit_and_loss(kwargs, env) ==
    with_permission_check("GL Entry", kwargs, env,
      with_company_check(kwargs, env,
        with_audit_logging("get_profit_and_loss", kwargs, env,
          CallWithKeywords({"from_date", "to_date"}, {"company"} \cup ContextKeys,
                           kwargs,
                           get_financial_report(
                               ReportKwargs(kwargs, "Profit and Loss Statement",
                                            Get(kwargs, "from_date"), "Monthly"),
                               env)))))

\* get_balance_sheet: from_date is the start of the fiscal year of to_date
get_balance_sheet(kwargs, env) ==
    with_permission_check("GL Entry", kwargs, env,
      with_company_check(kwargs, env,
        with_audit_logging("get_balance_sheet", kwargs, env,
          CallWithKeywords({"to_date"}, {"company"} \cup ContextKeys, kwargs,
            LET inner == get_financial_report(
                             ReportKwargs(kwargs, "Balance Sheet",
                                          "fiscal-year-start", "Yearly"), env)
            IN  [inner EXCEPT !.events =
                     <<Event("meta", "Fiscal Year", None)>> \o @]))))

\* ------------------------------------------------------------ report_tools
\* validate_report_name: non-empty, no path characters (none of the model's
\* names has any), and the Report exists
validate_report_name(report_name) == Truthy(report_name) /\ ReportExists(report_name)

\* _validate_filters(filters, user): the exception it throws, or None
_validate_filters(filters, user) ==
    IF "company" \in DOMAIN filters /\ Truthy(filters["company"])
       /\ ~company_access_granted(filters["company"], user)
    THEN "PermissionError" ELSE None

\* the body of execute_report
execute_report_body(kwargs, env) ==
    LET user        == KwUser(kwargs, env)
        report_name == kwargs["report_name"]
        filters     == IF "filters" \in DOMAIN kwargs THEN kwargs["filters"]
                       ELSE EmptyDict
        exists      == <<Event("meta", "Report", None)>>
        access      == validate_report_access(report_name, user)
        perm        == IF user = "Administrator" THEN <<>>
                       ELSE <<Event("perm", ReportRefDoctype[report_name], None)>>
        scope       == IF "company" \in DOMAIN filters /\ Truthy(filters["company"])
                       THEN <<Event("scope", "Company", filters["company"])>>
                       ELSE <<>>
        run         == <<Event("run", report_name, Get(filters, "company"))>>
    IN  IF ~validate_report_name(report_name)
        THEN Return(<<"Error: Report '", report_name, "' not found or invalid.">>,
                    <<>>, exists)
        ELSE IF access = "PermissionError"
        THEN Raise("PermissionDeniedError",
                   <<"You do not have permission to access the report '", report_name, "'">>,
                   <<>>, exists \o perm)
        ELSE IF access = "DoesNotExistError"
        THEN Raise("DoesNotExistError", <<"Report not found: ", report_name>>,
                   <<>>, exists)
        ELSE IF _validate_filters(filters, user) # None
        THEN Raise("PermissionError", CompanyAccessMessage(filters["company"]),
                   <<>>, exists \o perm \o scope)
        ELSE IF env.run_ok
        THEN Return(format_report_for_ai(report_name), <<>>,
                    exists \o perm \o scope \o run)
        ELSE Return(<<"Error executing report '", report_name, "': ", RunErrorText>>,
                    <<>>, exists \o perm \o scope \o run)

execute_report(kwargs, env) ==
    with_audit_logging("execute_report", kwargs, env,
      CallWithKeywords({"report_name"}, {"filters"} \cup ContextKeys, kwargs,
                       execute_report_body(kwargs, env)))

\* the body of list_available_reports: the reports whose ref_doctype the user
\* may read
list_available_reports_body(kwargs, env) ==
    LET user       == KwUser(kwargs, env)
        accessible == {r \in DOMAIN ReportRefDoctype :
                          has_permission(ReportRefDoctype[r], user)}
    IN  Return(IF accessible = {} THEN <<"No reports available for your access level.">>
               ELSE <<"**Available Reports:**">>,
               <<>>, <<Event("meta", "Report", None)>>)

list_available_reports(kwargs, env) ==
    with_audit_logging("list_available_reports", kwargs, env,
      CallWithKeywords({}, {"module"} \cup ContextKeys, kwargs,
                       list_available_reports_body(kwargs, env)))

\* ------------------------------------------------------ agent_orchestrator
\* ALL_TOOL_FUNCTIONS = {**FINANCE_TOOL_FUNCTIONS, **REPORT_TOOL_FUNCTIONS}
ALL_TOOL_FUNCTIONS ==
    {"get_financial_report", "get_revenue", "get_expenses", "get_profit_and_loss",
     "get_balance_sheet", "execute_report", "list_available_reports"}

\* tool_func(**arguments)
tool_func(tool_name, arguments, env) ==
    CASE tool_name = "get_financial_report"   -> get_financial_report(arguments, env)
      [] tool_name = "get_revenue"            -> get_revenue(arguments, env)
      [] tool_name = "get_expenses"           -> get_expenses(arguments, env)
      [] tool_name = "get_profit_and_loss"    -> get_profit_and_loss(arguments, env)
      [] tool_name = "get_balance_sheet"      -> get_balance_sheet(arguments, env)
      [] tool_name = "execute_report"         -> execute_report(arguments, env)
      [] tool_name = "list_available_reports" -> list_available_reports(arguments, env)

\* what execute_tool hands back: the returned dict (result, status), the
\* exception that left execute_tool (None: it returns), the arguments dict
\* as the call left it (the caller's dict is updated in place), the outcome of
\* the tool function, the records inserted and the accesses made
ToolOutcome(result, status, exc, arguments, tool, logs, events) ==
    [result |-> result, status |-> status, exc |-> exc, arguments |-> arguments,
     tool_exc |-> tool.exc, tool_text |-> tool.text, logs |-> logs,
     events |-> events]

\* a variant of the context that keeps a value the arguments already hold
WithContext_defaults(arguments, session_id, audit_log_id, user) ==
    LET context == [k \in ContextKeys |->
                      CASE k = "session_id" -> session_id
                        [] k = "audit_log_id" -> audit_log_id
                        [] OTHER -> user]
    IN  [k \in (DOMAIN arguments) \cup ContextKeys |->
            IF k \in DOMAIN arguments THEN arguments[k] ELSE context[k]]

\* arguments with session_id, audit_log_id and user set by execute_tool
WithContext(arguments, session_id, audit_log_id, user) ==
    SetKey(SetKey(SetKey(arguments, "session_id", session_id),
                  "audit_log_id", audit_log_id), "user", user)

NotCalled == Return(NoText, <<>>, <<>>)

\* a variant of execute_tool that catches PermissionDeniedError only: any
\* other exception of the tool function propagates to the caller
execute_tool_propagating(tool_name, arguments, session_id, audit_log_id, user, env) ==
    IF tool_name \notin ALL_TOOL_FUNCTIONS
    THEN ToolOutcome(<<"Error: Unknown tool '", tool_name, "'">>, "error", None,
                     arguments, NotCalled, <<>>, <<>>)
    ELSE LET kwargs == WithContext(arguments, session_id, audit_log_id, user)
             r      == tool_func(tool_name, kwargs, env)
         IN  IF r.exc = None
             THEN ToolOutcome(r.text, "success", None, kwargs, r, r.logs, r.events)
             ELSE IF r.exc = "PermissionDeniedError"
             THEN ToolOutcome(<<"Permission denied: ">> \o r.text, "permission_denied",
                              None, kwargs, r, r.logs, r.events)
             ELSE ToolOutcome(NoText, "error", r.exc, kwargs, r, r.logs, r.events)

execute_tool(tool_name, arguments, session_id, audit_log_id, user, env) ==
    IF tool_name \notin ALL_TOOL_FUNCTIONS
    THEN ToolOutcome(<<"Error: Unknown tool '", tool_name, "'">>, "error", None,
                     arguments, NotCalled, <<>>, <<>>)
    ELSE LET kwargs == WithContext(arguments, session_id, audit_log_id, user)
             r      == tool_func(tool_name, kwargs, env)
         IN  IF r.exc = None
             THEN ToolOutcome(r.text, "success", None, kwargs, r, r.logs, r.events)
             ELSE IF r.exc = "PermissionDeniedError"
             THEN ToolOutcome(<<"Permission denied: ">> \o r.text, "permission_denied",
                              None, kwargs, r, r.logs, r.events)
             ELSE ToolOutcome(<<"Error executing ", tool_name, ": ">> \o r.text, "error",
                              None, kwargs, r, r.logs, r.events)

\* json.loads of a tool call's argument text.  The text is the token sequence
\* key, value, key, value, ...; a text cut short (an odd number of tokens)
\* is no JSON and raises JSONDecodeError; a repeated key keeps its last value
JsonValid(text) == Len(text) % 2 = 0

JsonDecodeErrorText == "Expecting value: line 1 column 1 (char 0)"

json_loads(text) ==
    LET keys == {text[i] : i \in {j \in DOMAIN text : j % 2 = 1}}
        last(k) == CHOOSE i \in DOMAIN text :
                       /\ i % 2 = 1 /\ text[i] = k
                       /\ \A j \in DOMAIN text : (j % 2 = 1 /\ text[j] = k) => j <= i
    IN  [k \in keys |-> text[last(k) + 1]]

\* json.dumps(data_accessed): the JSON array of {"tool", "arguments"} objects
json_dumps_trail(data_accessed) ==
    [i \in DOMAIN data_accessed |->
        [tool |-> data_accessed[i].tool,
         arguments |-> json_dumps(data_accessed[i].arguments)]]

\* the names the store gives the Chat Audit Log documents, in insert order
AuditNames == <<"CAL-1", "CAL-2", "CAL-3">>

\* a variant of the inserted document that starts with the permission flag
\* cleared
NewAuditLog_unpassed(logs, session_id, session_user, query_text) ==
    [name |-> AuditNames[Len(logs) + 1],
     session_id |-> session_id,
     user |-> session_user,
     query_text |-> query_text,
     response_summary |-> NoText,
     data_accessed |-> <<>>,
     permission_checks_passed |-> FALSE,
     error_occurred |-> FALSE,
     error_message |-> NoText,
     tools_called |-> 0,
     total_processing_time_ms |-> None,
     updates |-> 0]

\* the Chat Audit Log document log_query inserts; `updates` counts the writes
\* applied to it after the insert
NewAuditLog(logs, session_id, session_user, query_text) ==
    [name |-> AuditNames[Len(logs) + 1],
     session_id |-> session_id,
     user |-> session_user,
     query_text |-> query_text,
     response_summary |-> NoText,
     data_accessed |-> <<>>,
     permission_checks_passed |-> TRUE,
     error_occurred |-> FALSE,
     error_message |-> NoText,
     tools_called |-> 0,
     total_processing_time_ms |-> None,
     updates |-> 0]

\* a variant of log_query without its try/except: a failed insert raises
log_query_unguarded(logs, session_id, session_user, query_text, insert_ok) ==
    IF insert_ok
    THEN [logs |-> Append(logs, NewAuditLog(logs, session_id, session_user, query_text)),
          name |-> AuditNames[Len(logs) + 1],
          exc |-> None]
    ELSE [logs |-> logs, name |-> None, exc |-> "Exception"]

\* log_query(session_id, query_text, permission_checks_passed=True,
\* error_occurred=False, tools_called=0): the store with the new record and its
\* name, or the unchanged store and None when the insert fails (the exception
\* is logged and swallowed)
log_query(logs, session_id, session_user, query_text, insert_ok) ==
    IF insert_ok
    THEN [logs |-> Append(logs, NewAuditLog(logs, session_id, session_user, query_text)),
          name |-> AuditNames[Len(logs) + 1],
          exc |-> None]
    ELSE [logs |-> logs, name |-> None, exc |-> None]

\* the keyword arguments of the two calls of _update_audit_log; `given` names
\* the optional ones that are passed and not None
SuccessUpdate(response_text, data_accessed, permission_checks_passed, tools_called) ==
    [given |-> {"data_accessed", "total_processing_time_ms"} \cup
               (IF response_text # NoText THEN {"response_summary"} ELSE {}),
     response_summary |-> response_text,
     data_accessed |-> data_accessed,
     permission_checks_passed |-> permission_checks_passed,
     error_occurred |-> FALSE,
     error_message |-> NoText,
     tools_called |-> tools_called,
     total_processing_time_ms |-> "elapsed"]

ErrorUpdate(error_message) ==
    [given |-> {"total_processing_time_ms"} \cup
               (IF error_message # NoText THEN {"error_message"} ELSE {}),
     response_summary |-> NoText,
     data_accessed |-> <<>>,
     permission_checks_passed |-> TRUE,
     error_occurred |-> TRUE,
     error_message |-> error_message,
     tools_called |-> 0,
     total_processing_time_ms |-> "elapsed"]

\* a variant of _update_audit_log that adds the count of tool calls to the
\* recorded one and keeps a recorded error flag
_update_audit_log_accumulating(logs, audit_log_id, args, write_ok) ==
    IF ~Truthy(audit_log_id) \/ ~write_ok THEN logs
    ELSE [i \in DOMAIN logs |->
            IF logs[i].name # audit_log_id THEN logs[i]
            ELSE [logs[i] EXCEPT
                    !.response_summary =
                        IF "response_summary" \in args.given
                        THEN args.response_summary ELSE @,
                    !.data_accessed =
                        IF "data_accessed" \in args.given
                        THEN json_dumps_trail(args.data_accessed) ELSE @,
                    !.permission_checks_passed = args.permission_checks_passed,
                    !.error_occurred = @ \/ args.error_occurred,
                    !.error_message =
                        IF "error_message" \in args.given
                        THEN args.error_message ELSE @,
                    !.tools_called = @ + args.tools_called,
                    !.total_processing_time_ms =
                        IF "total_processing_time_ms" \in args.given
                        THEN args.total_processing_time_ms ELSE @,
                    !.updates = @ + 1]]

\* a variant of _update_audit_log whose write is lost
_update_audit_log_lost(logs, audit_log_id, args, write_ok) == logs

\* _update_audit_log: frappe.db.set_value on the record named audit_log_id;
\* nothing is written when audit_log_id is None or when the write fails (the
\* exception is logged and swallowed).  `updates` counts the writes applied.
_update_audit_log(logs, audit_log_id, args, write_ok) ==
    IF ~Truthy(audit_log_id) \/ ~write_ok THEN logs
    ELSE [i \in DOMAIN logs |->
            IF logs[i].name # audit_log_id THEN logs[i]
            ELSE [logs[i] EXCEPT
                    !.response_summary =
                        IF "response_summary" \in args.given
                        THEN args.response_summary ELSE @,
                    !.data_accessed =
                        IF "data_accessed" \in args.given
                        THEN json_dumps_trail(args.data_accessed) ELSE @,
                    !.permission_checks_passed = args.permission_checks_passed,
                    !.error_occurred = args.error_occurred,
                    !.error_message =
                        IF "error_message" \in args.given
                        THEN args.error_message ELSE @,
                    !.tools_called = args.tools_called,
                    !.total_processing_time_ms =
                        IF "total_processing_time_ms" \in args.given
                        THEN args.total_processing_time_ms ELSE @,
                    !.updates = @ + 1]]

\* the keywords _get_user_friendly_error looks for that occur in the
\* lower-cased text of each exception message of the model
FragmentKeywords(fragment) ==
    CASE fragment = "Chatbot API key not configured. Please set 'chatbot_api_key' in site_config.json"
            -> {"api key"}
      [] fragment = "Rate limit exceeded" -> {"rate limit"}
      [] fragment = "Connection error." -> {"connection"}
      [] fragment = "Permission denied: the API key lacks access" -> {"api key", "permission"}
      [] OTHER -> {}

ErrorKeywords(error_str) == UNION {FragmentKeywords(error_str[i]) : i \in DOMAIN error_str}

_get_user_friendly_error(error_str) ==
    LET kw == ErrorKeywords(error_str)
    IN  IF "api key" \in kw
        THEN <<"The AI service is not properly configured. Please contact your administrator.">>
        ELSE IF "rate limit" \in kw
        THEN <<"The AI service is currently busy. Please try again in a few moments.">>
        ELSE IF "connection" \in kw \/ "timeout" \in kw
        THEN <<"Unable to connect to the AI service. Please check your internet connection and try again.">>
        ELSE IF "permission" \in kw
        THEN <<"You don't have permission to access the requested data.">>
        ELSE <<"An error occurred while processing your request. Please try again or rephrase your question.">>

\* --------------------------------------------------------- chat_message.py
\* the number of prior messages process_message asks for
ContextLimit == 20

\* frappe.get_all("Chat Message", filters={"session_id": ...}): the positions
\* of the session's messages in the store, oldest first
SessionMessages(messages, session_id) ==
    {i \in DOMAIN messages : messages[i].session_id = session_id}

\* ChatMessage.get_context_messages(session_id, limit): the `limit` most
\* recent messages of the session, oldest first, as {"role", "content"}
get_context_messages(messages, session_id, limit) ==
    LET mine == SessionMessages(messages, session_id)
        kept == {i \in mine : Cardinality({j \in mine : j > i}) < limit}
        nth(n) == CHOOSE i \in kept : Cardinality({j \in kept : j < i}) = n - 1
    IN  [n \in 1..Cardinality(kept) |->
            [role |-> messages[nth(n)].role, content |-> messages[nth(n)].content]]

\* session_status.lower()
Lower(status) ==
    CASE status = "Active" -> "active"
      [] status = "Closed" -> "closed"
      [] status = "Expired" -> "expired"

\* the messages a client sends
UserMessage == <<"What is our revenue?">>

MarkupMessage == <<"P&L for <CoA>", "; DROP ", "TABLE x ">>

BlankMessage == <<" ">>

OversizeMessage == <<"a text of 10001 characters">>

QuotesMessage == <<"10000 quotation marks">>

\* len of a fragment of a text
FragmentLength(fragment) ==
    CASE fragment = "a text of 10001 characters" -> 10001
      [] fragment = "10000 quotation marks" -> 10000
      [] fragment = "10000 &quot; entities" -> 60000
      [] OTHER -> 20

\* len(text)
RECURSIVE CharLength(_)
CharLength(text) ==
    IF text = <<>> THEN 0 ELSE FragmentLength(Head(text)) + CharLength(Tail(text))

\* a variant of _validate_session that only checks that the session exists
_validate_session_exists(sessions, session_id) ==
    IF session_id \in DOMAIN sessions THEN NoText
    ELSE <<"Chat session not found: ", session_id>>

\* ChatMessage._validate_session: the exception it throws, or NoText
_validate_session(sessions, session_id) ==
    IF session_id \notin DOMAIN sessions
    THEN <<"Chat session not found: ", session_id>>
    ELSE IF sessions[session_id].status # "Active"
    THEN <<"Cannot add messages to a ", Lower(sessions[session_id].status), " session">>
    ELSE NoText

\* the characters a Chat Message may hold
MaxContentLength == 50000

\* ChatMessage._validate_content_length: the exception it throws, or NoText
_validate_content_length(content) ==
    IF CharLength(content) > MaxContentLength
    THEN <<"Message content exceeds maximum length of {0} characters">>
    ELSE NoText

\* the Chat Session document session_manager.create_session inserts.
\* `inactive` tells that last_activity is more than 24 hours back, `old` that
\* created_at is more than the retention period back; `was_expired` records
\* that the status was Expired at some moment
NewSession(owner) ==
    [user |-> owner, status |-> "Active", message_count |-> 0, total_tokens |-> 0,
     inactive |-> FALSE, old |-> FALSE, was_expired |-> FALSE]

\* ChatSession.increment_message_count(token_count), called by after_insert
increment_message_count(session, token_count) ==
    [session EXCEPT !.message_count = @ + 1, !.total_tokens = @ + token_count,
                    !.inactive = FALSE]

\* ChatMessage.create_message: the stores after the insert, or the exception
\* validate throws (then nothing is stored)
create_message(messages, sessions, session_id, role, content, token_count) ==
    LET session_error == _validate_session(sessions, session_id)
        error == IF session_error # NoText THEN session_error
                 ELSE _validate_content_length(content)
    IN  IF error # NoText
        THEN [exc |-> error, messages |-> messages, sessions |-> sessions]
        ELSE [exc |-> NoText,
              messages |-> Append(messages,
                  [session_id |-> session_id, role |-> role, content |-> content,
                   token_count |-> token_count]),
              sessions |-> [sessions EXCEPT ![session_id] =
                               increment_message_count(@, token_count)]]

\* --------------------------------------------------------- chat_session.py
\* ChatSession._validate_status_transition on the save of an existing
\* document: the exception it throws, or NoText
_validate_status_transition(old_status, status) ==
    IF old_status = "Expired" /\ status = "Active"
    THEN <<"Cannot reactivate an expired session">>
    ELSE NoText

\* Document.save of a Chat Session whose status was set to `status`: validate
\* runs and the document is written unless it throws
save_session(sessions, session_id, status) ==
    LET error == _validate_status_transition(sessions[session_id].status, status)
    IN  IF error # NoText
        THEN [exc |-> error, sessions |-> sessions]
        ELSE [exc |-> NoText,
              sessions |-> [sessions EXCEPT
                              ![session_id].status = status,
                              ![session_id].was_expired = @ \/ status = "Expired"]]

\* ------------------------------------------------------ session_manager.py
\* the session ids uuid4 gives, in the order of creation
SessionNames == <<"s1", "s2", "s3", "s4">>

\* session_manager.create_session for the user of the request
create_session(sessions, count, owner) ==
    [sessions |-> [sid \in (DOMAIN sessions) \cup {SessionNames[count + 1]} |->
                      IF sid \in DOMAIN sessions THEN sessions[sid]
                      ELSE NewSession(owner)],
     session_id |-> SessionNames[count + 1]]

\* a variant of validate_session_ownership without the check of the status
validate_session_ownership_any_status(sessions, session_id, session_user) ==
    IF session_id \notin DOMAIN sessions
    THEN [exc |-> "DoesNotExistError",
          text |-> <<"Chat session not found: ", session_id>>]
    ELSE IF sessions[session_id].user # session_user /\ session_user # "Administrator"
    THEN [exc |-> "PermissionError",
          text |-> <<"You do not have permission to access this chat session">>]
    ELSE [exc |-> None, text |-> NoText]

\* session_manager.validate_session_ownership: the class and message of the
\* exception it throws, or None
validate_session_ownership(sessions, session_id, session_user) ==
    IF session_id \notin DOMAIN sessions
    THEN [exc |-> "DoesNotExistError",
          text |-> <<"Chat session not found: ", session_id>>]
    ELSE IF sessions[session_id].user # session_user /\ session_user # "Administrator"
    THEN [exc |-> "PermissionError",
          text |-> <<"You do not have permission to access this chat session">>]
    ELSE IF sessions[session_id].status # "Active"
    THEN [exc |-> "ValidationError",
          text |-> <<"This chat session is ", Lower(sessions[session_id].status),
                     " and cannot be used">>]
    ELSE [exc |-> None, text |-> NoText]

\* session_manager.close_session: frappe.get_doc, the ownership check, the
\* Expired check, then status = "Closed" and save
close_session_doc(sessions, session_id, session_user) ==
    IF session_id \notin DOMAIN sessions
    THEN [exc |-> <<"Chat Session ", session_id, " not found">>, sessions |-> sessions]
    ELSE IF sessions[session_id].user # session_user /\ session_user # "Administrator"
    THEN [exc |-> <<"You do not have permission to close this session">>,
          sessions |-> sessions]
    ELSE IF sessions[session_id].status = "Expired"
    THEN [exc |-> <<"Cannot close an expired session">>, sessions |-> sessions]
    ELSE save_session(sessions, session_id, "Closed")

\* a variant of delete_messages that deletes nothing
delete_messages_none(messages, session_id) == messages

\* frappe.db.delete("Chat Message", {"session_id": session_id})
delete_messages(messages, session_id) ==
    SelectSeq(messages, LAMBDA m : m.session_id # session_id)

\* frappe.delete_doc("Chat Session", session_id)
delete_session_doc(sessions, session_id) ==
    [sid \in (DOMAIN sessions) \ {session_id} |-> sessions[sid]]

\* session_manager.delete_session: the messages of the session are deleted,
\* then the session; the audit records are not touched
delete_session(sessions, messages, session_id, session_user) ==
    IF session_id \notin DOMAIN sessions
    THEN [exc |-> <<"Chat Session ", session_id, " not found">>,
          sessions |-> sessions, messages |-> messages]
    ELSE IF sessions[session_id].user # session_user /\ session_user # "Administrator"
    THEN [exc |-> <<"You do not have permission to delete this session">>,
          sessions |-> sessions, messages |-> messages]
    ELSE [exc |-> NoText,
          sessions |-> delete_session_doc(sessions, session_id),
          messages |-> delete_messages(messages, session_id)]

\* session_manager.expire_inactive_sessions: every Active session whose
\* last_activity is more than 24 hours back is saved with status Expired
expire_inactive_sessions(sessions) ==
    [sid \in DOMAIN sessions |->
        IF sessions[sid].status = "Active" /\ sessions[sid].inactive
        THEN save_session(sessions, sid, "Expired").sessions[sid]
        ELSE sessions[sid]]

\* session_manager.delete_old_sessions: every session created before the
\* retention threshold is deleted after its messages
delete_old_sessions(sessions, messages) ==
    LET old_sessions == {sid \in DOMAIN sessions : sessions[sid].old}
    IN  [sessions |-> [sid \in (DOMAIN sessions) \ old_sessions |-> sessions[sid]],
         messages |-> SelectSeq(messages, LAMBDA m : m.session_id \notin old_sessions)]

\* --------------------------------------------------------- rate_limiter.py
\* a variant of check_rate_limit whose retry_after counts from the newest
\* timestamp and adds the window
check_rate_limit_stamped(cache, session_user, limit, window, current_time) ==
    IF session_user = "Administrator"
    THEN [exceeded |-> FALSE, cache |-> cache, retry_after |-> 0]
    ELSE LET timestamps == SelectSeq(cache[session_user],
                                     LAMBDA ts : current_time - ts < window)
         IN  [exceeded |-> Len(timestamps) >= limit,
              cache |-> [cache EXCEPT ![session_user] =
                            Append(timestamps, current_time)],
              retry_after |-> IF Len(timestamps) >= limit
                              THEN window - (current_time - timestamps[1]) ELSE 0]

check_rate_limit_late(cache, session_user, limit, window, current_time) ==
    IF session_user = "Administrator"
    THEN [exceeded |-> FALSE, cache |-> cache, retry_after |-> 0]
    ELSE LET timestamps == SelectSeq(cache[session_user],
                                     LAMBDA ts : current_time - ts < window)
         IN  IF Len(timestamps) >= limit
             THEN [exceeded |-> TRUE, cache |-> cache,
                   retry_after |-> window + (current_time - timestamps[1])]
             ELSE [exceeded |-> FALSE,
                   cache |-> [cache EXCEPT ![session_user] =
                                 Append(timestamps, current_time)],
                   retry_after |-> 0]

\* a variant of check_rate_limit that does not store the timestamp of the call
\* it lets pass
check_rate_limit_unstored(cache, session_user, limit, window, current_time) ==
    IF session_user = "Administrator"
    THEN [exceeded |-> FALSE, cache |-> cache, retry_after |-> 0]
    ELSE LET timestamps == SelectSeq(cache[session_user],
                                     LAMBDA ts : current_time - ts < window)
         IN  IF Len(timestamps) >= limit
             THEN [exceeded |-> TRUE, cache |-> cache,
                   retry_after |-> window - (current_time - timestamps[1])]
             ELSE [exceeded |-> FALSE, cache |-> cache, retry_after |-> 0]

\* check_rate_limit(user, limit, window) at time current_time: the cache after
\* the call, and the retry_after of the RateLimitExceeded it throws (None
\* when the call is accepted)
check_rate_limit(cache, session_user, limit, window, current_time) ==
    IF session_user = "Administrator"
    THEN [exceeded |-> FALSE, cache |-> cache, retry_after |-> 0]
    ELSE LET timestamps == SelectSeq(cache[session_user],
                                     LAMBDA ts : current_time - ts < window)
             oldest_timestamp == CHOOSE ts \in {timestamps[i] : i \in DOMAIN timestamps} :
                                    \A i \in DOMAIN timestamps : ts <= timestamps[i]
         IN  IF Len(timestamps) >= limit
             THEN [exceeded |-> TRUE, cache |-> cache,
                   retry_after |-> window - (current_time - oldest_timestamp)]
             ELSE [exceeded |-> FALSE,
                   cache |-> [cache EXCEPT ![session_user] =
                                 Append(timestamps, current_time)],
                   retry_after |-> 0]

\* --------------------------------------------------------- sanitization.py
\* html.escape of a fragment
html_escape(fragment) ==
    CASE fragment = "P&L for <CoA>" -> "P&amp;L for &lt;CoA&gt;"
      [] fragment = "10000 quotation marks" -> "10000 &quot; entities"
      [] OTHER -> fragment

\* the fragments _remove_sql_patterns removes
SqlPatterns == {"; DROP "}

\* str.strip of the fragments at the ends of a text
StripFragment(fragment) ==
    CASE fragment = " " -> ""
      [] fragment = "TABLE x " -> "TABLE x"
      [] OTHER -> fragment

\* sanitize_user_input(text, max_length): the sanitized text, or the
\* ValidationError it throws
sanitize_user_input(text, max_length) ==
    IF text = NoText THEN [exc |-> NoText, text |-> NoText]
    ELSE IF CharLength(text) > max_length
    THEN [exc |-> <<"Input exceeds maximum length of {0} characters">>,
          text |-> NoText]
    ELSE LET escaped == [i \in DOMAIN text |-> html_escape(text[i])]
             cleaned == SelectSeq(escaped, LAMBDA f : f \notin SqlPatterns)
             stripped == [i \in DOMAIN cleaned |->
                            IF i \in {1, Len(cleaned)} THEN StripFragment(cleaned[i])
                            ELSE cleaned[i]]
         IN  [exc |-> NoText, text |-> SelectSeq(stripped, LAMBDA f : f # "")]

\* ------------------------------- chat_audit_log.py, ai_tool_call_log.py
\* ChatAuditLog.validate / AIToolCallLog.validate on the save of an existing
\* document, and on_trash on its deletion: the exception thrown
LogValidate(doctype) ==
    IF doctype = "Chat Audit Log"
    THEN <<"Audit logs cannot be modified after creation">>
    ELSE <<"Tool call logs cannot be modified after creation">>

LogOnTrash(doctype) ==
    IF doctype = "Chat Audit Log"
    THEN <<"Audit logs cannot be deleted">>
    ELSE <<"Tool call logs cannot be deleted">>

\* Document.save of the i-th record of a log with field f set to v
save_log(doctype, logs, i, f, v) ==
    IF LogValidate(doctype) # NoText
    THEN [exc |-> LogValidate(doctype), logs |-> logs]
    ELSE [exc |-> NoText, logs |-> [logs EXCEPT ![i][f] = v]]

\* a variant of delete_log without the on_trash hook
delete_log_unguarded(doctype, logs, i) ==
    [exc |-> NoText,
     logs |-> [j \in 1..(Len(logs) - 1) |-> IF j < i THEN logs[j] ELSE logs[j + 1]]]

\* frappe.delete_doc of the i-th record of a log
delete_log(doctype, logs, i) ==
    IF LogOnTrash(doctype) # NoText
    THEN [exc |-> LogOnTrash(doctype), logs |-> logs]
    ELSE [exc |-> NoText,
          logs |-> [j \in 1..(Len(logs) - 1) |-> IF j < i THEN logs[j] ELSE logs[j + 1]]]

\* ------------------------------------------------------------- api/chat.py
\* check_rate_limit(frappe.session.user, limit=20, window=60)
RateLimit == 20

RateWindow == 60

\* sanitize_user_input(message, max_length=10000)
MaxInputLength == 10000

GenericSendError ==
    <<"An error occurred while processing your message. Please try again.">>

\* send_message up to the call of process_message: the cache after the rate
\* limit check, and either the error response or the clean message to process
send_message_checks(cache, sessions, session_user, sid, message, current_time) ==
    LET limited == check_rate_limit(cache, session_user, RateLimit, RateWindow,
                                    current_time)
        owned   == validate_session_ownership(sessions, sid, session_user)
        clean   == sanitize_user_input(message, MaxInputLength)
    IN  IF limited.exceeded
        THEN [cache |-> cache, accepted |-> FALSE, stage |-> "rate_limit",
              error |-> <<"Rate limit exceeded. Please try again in {0} seconds.">>,
              retry_after |-> limited.retry_after, clean_message |-> NoText]
        ELSE IF owned.exc \in {"DoesNotExistError", "ValidationError"}
        THEN [cache |-> limited.cache, accepted |-> FALSE, stage |-> "session",
              error |-> owned.text, retry_after |-> 0, clean_message |-> NoText]
        ELSE IF owned.exc # None
        THEN [cache |-> limited.cache, accepted |-> FALSE, stage |-> "session",
              error |-> GenericSendError, retry_after |-> 0, clean_message |-> NoText]
        ELSE IF clean.exc # NoText
        THEN [cache |-> limited.cache, accepted |-> FALSE, stage |-> "input",
              error |-> clean.exc, retry_after |-> 0, clean_message |-> NoText]
        ELSE IF clean.text = NoText
        THEN [cache |-> limited.cache, accepted |-> FALSE, stage |-> "input",
              error |-> <<"Message cannot be empty">>, retry_after |-> 0,
              clean_message |-> NoText]
        ELSE [cache |-> limited.cache, accepted |-> TRUE, stage |-> "process_message",
              error |-> NoText, retry_after |-> 0, clean_message |-> clean.text]

\* ------------------------------------------------------------ the inputs
SessionId == "s1"

SYSTEM_PROMPT == <<"You are an AI assistant for ERPNext">>

\* the tool calls a model response can request: the tool's name and the
\* JSON text of its arguments
ToolCall(name, arguments) == [name |-> name, arguments |-> arguments]

Dates == <<"from_date", "2024-01-01", "to_date", "2024-03-31">>

ToolCallSet ==
    { ToolCall("get_revenue", Dates \o <<"company", "CoA">>),
      ToolCall("get_expenses", Dates \o <<"company", "CoB">>),
      ToolCall("get_expenses", Dates \o <<"company", "CoA">>),
      ToolCall("get_financial_report",
               <<"report_name", "Profit and Loss Statement">> \o Dates
               \o <<"company", "CoA">>),
      ToolCall("get_profit_and_loss", Dates \o <<"company", "CoA">>),
      ToolCall("execute_report", <<"report_name", "Sales Register">>),
      ToolCall("get_weather", <<>>),
      ToolCall("get_revenue", <<"from_date">>),
      ToolCall("list_available_reports", <<"api_key", "k">>) }

\* the tool_calls lists of a model response, with at most MaxToolCalls calls
ToolCallLists == UNION {[1..n -> ToolCallSet] : n \in 0..MaxToolCalls}

\* the replies of the language model considered in the runs of the API
ApiToolCallLists == { <<ToolCall("get_revenue", Dates \o <<"company", "CoA">>)>> }

\* the lists the language model may answer with, by the name the run gives
\* tool calls that leave the company out or name a subject, a session or an
\* audit record of their own
ForeignContext ==
    <<"user", "Administrator", "session_id", "s2", "audit_log_id", "CAL-2">>

ScopedToolCallSet ==
    { ToolCall("get_revenue", Dates),
      ToolCall("get_expenses", Dates),
      ToolCall("get_financial_report",
               <<"report_name", "Profit and Loss Statement">> \o Dates),
      ToolCall("get_revenue", Dates \o <<"company", "CoB">>),
      ToolCall("get_revenue", Dates \o <<"company", "CoB">> \o ForeignContext),
      ToolCall("get_expenses", Dates \o <<"company", "CoA">> \o ForeignContext),
      ToolCall("execute_report",
               <<"report_name", "Sales Register", "user", "Administrator">>) }

MaxScopedCalls == 2

ScopedToolCallLists == UNION {[1..n -> ScopedToolCallSet] : n \in 1..MaxScopedCalls}

ToolCallListsOf(name) ==
    IF name = "every" THEN ToolCallLists
    ELSE IF name = "one" THEN ApiToolCallLists
    ELSE IF name = "scoped" THEN ScopedToolCallLists
    ELSE {<<>>} \cup ApiToolCallLists

\* the content of the final answer
AnswerText == <<"Revenue for the period is USD 100.00">>

\* the longest answer, in fragments, of the runs that vary the answer
MaxAnswerLength == 4

\* the fragments of those answers
AnswerFragments ==
    {"Revenue rose.", " ", "{CHART_DATA}", "{/CHART_DATA}",
     "{chart_type: line, labels: [Jan, Feb], values: [10, 20]}",
     "{chart_type: scatter, labels: [Jan, Feb], values: [10, 20]}"}

ChartAnswers == UNION {[1..n -> AnswerFragments] : n \in 1..MaxAnswerLength}

\* JSON objects of a chart block whose labels and values differ in length,
\* hold one point, or are missing
UnevenJson == "{chart_type: bar, labels: [Jan, Feb, Mar], values: [10, 20]}"

SinglePointJson == "{chart_type: pie, labels: [Jan], values: [10]}"

NoValuesJson == "{chart_type: bar, labels: [Jan, Feb]}"

\* the longest answer of the runs that vary the object of the block
MaxDescriptorLength == 3

DescriptorFragments ==
    {" ", "{CHART_DATA}", "{/CHART_DATA}",
     "{chart_type: line, labels: [Jan, Feb], values: [10, 20]}",
     "{chart_type: scatter, labels: [Jan, Feb], values: [10, 20]}",
     UnevenJson, SinglePointJson, NoValuesJson}

DescriptorAnswers ==
    UNION {[1..n -> DescriptorFragments] : n \in 1..MaxDescriptorLength}

\* the contents the language model may answer with, by the name the run gives
AnswersOf(name) ==
    IF name = "plain" THEN {AnswerText}
    ELSE IF name = "descriptors" THEN DescriptorAnswers
    ELSE ChartAnswers

\* the exceptions the context fetch and get_ai_client raise
SetupErrors ==
    { <<"(2006, 'MySQL server has gone away')">>,
      <<"Chatbot API key not configured. Please set 'chatbot_api_key' in site_config.json">> }

\* the exceptions client.chat.completions.create raises
ModelErrors ==
    { <<"Rate limit exceeded">>,
      <<"Connection error.">>,
      <<"Permission denied: the API key lacks access">> }

\* ---------------------------------------------------------------- the state
VARIABLES
    pc,                 \* where the call of process_message stands
    user,               \* frappe.session.user, the subject of the turn
    chat_sessions,      \* Chat Session documents by session_id
    chat_messages,      \* Chat Message documents, in insert order
    chat_audit_logs,    \* Chat Audit Log documents, in insert order
    tool_call_logs,     \* AI Tool Call Log documents, in insert order
    audit_log_id,       \* the local audit_log_id
    tool_calls,         \* assistant_message.tool_calls
    tools_called,       \* the local tools_called
    data_accessed,      \* the local data_accessed
    permission_checks_passed,
    tool_results,       \* the local tool_results
    model_requests,     \* the messages and tool access of each model call made
    response_text,      \* the local response_text
    total_tokens,       \* the local total_tokens
    result,             \* what process_message returned
    error_message,      \* the local error_message
    raised,             \* the exception that left process_message, or None
    audit_faults,       \* the writes the audit store refused: "insert", "update"
    dispatched,         \* per call of execute_tool: what it was given and did
    session_id,         \* the session_id process_message is called with
    user_message,       \* the user_message process_message is called with
    tool_call_lists,    \* which tool_calls lists the language model may answer with
    faults,             \* the failures the stores, the tools and the model may show
    answers,            \* which texts the language model may answer with
    builder_call,       \* the last call of a ChartDataBuilder method
    builder_result,     \* what that call returned
    in_flight,          \* the jobs and requests under way beside the turn
    sessions_created,   \* the number of Chat Sessions created so far
    rate_limit_cache,   \* frappe.cache: the timestamps kept per subject
    accepted_calls,     \* per subject, the times of the calls check_rate_limit let pass
    now,                \* time.time(), in seconds
    turns,              \* the number of calls of process_message made by send_message
    api_result          \* the last call of an API endpoint and what it returned

vars == <<pc, user, chat_sessions, chat_messages, chat_audit_logs, tool_call_logs,
          audit_log_id, tool_calls, tools_called, data_accessed,
          permission_checks_passed, tool_results, model_requests, response_text,
          total_tokens, result, error_message, raised, audit_faults,
          dispatched, session_id, user_message, tool_call_lists, faults,
          answers, builder_call, builder_result, in_flight,
          sessions_created, rate_limit_cache, accepted_calls, now, turns,
          api_result>>

\* the arguments of the call of process_message, and the replies and the
\* failures of the stores, of the tools and of the model considered
call == <<session_id, user_message, tool_call_lists, faults, answers,
          builder_call, builder_result, in_flight>>

\* the state of the API layer
api == <<sessions_created, rate_limit_cache, accepted_calls, now, turns,
         api_result>>

\* what the except branch and the final update write
outcome == <<chat_audit_logs, result, error_message, audit_faults>>

store == <<chat_sessions, chat_messages, chat_audit_logs, tool_call_logs>>

locals == <<audit_log_id, tool_calls, tools_called, data_accessed,
            permission_checks_passed, tool_results, model_requests, response_text,
            total_tokens>>

NoResult == [returned |-> FALSE]

\* no method of the ChartDataBuilder was called yet
NoCall == [method |-> None]

\* the None a chart function returns in place of a chart
NoChart == [chart_type |-> None]

\* no job and no request is under way beside the turn
NoneInFlight == [job |-> None]

\* the state before a call of process_message on the Active session of one of
\* the users given, with the replies of the model and the failures given
InitOf(users, lists, failures, contents) ==
    /\ pc = "idle"
    /\ user \in users
    /\ chat_sessions = [sid \in {SessionId} |-> NewSession(user)]
    /\ chat_messages = <<>>
    /\ chat_audit_logs = <<>>
    /\ tool_call_logs = <<>>
    /\ audit_log_id = None
    /\ tool_calls = <<>>
    /\ tools_called = 0
    /\ data_accessed = <<>>
    /\ permission_checks_passed = TRUE
    /\ tool_results = <<>>
    /\ model_requests = <<>>
    /\ response_text = NoText
    /\ total_tokens = 0
    /\ result = NoResult
    /\ error_message = NoText
    /\ audit_faults = {}
    /\ raised = None
    /\ dispatched = <<>>
    /\ session_id = SessionId
    /\ user_message = UserMessage
    /\ tool_call_lists = lists
    /\ faults = failures
    /\ answers = contents
    /\ builder_call = NoCall
    /\ builder_result = NoChart
    /\ in_flight = NoneInFlight
    /\ sessions_created = 1
    /\ rate_limit_cache = [u \in Users |-> <<>>]
    /\ accepted_calls = [u \in Users |-> <<>>]
    /\ now = 0
    /\ turns = 1
    /\ api_result = NoResult

\* every failure of the stores, of the tools and of the model
AnyFaults ==
    [setup_errors |-> SetupErrors, model_errors |-> ModelErrors,
     store_ok |-> BOOLEAN, run_ok |-> BOOLEAN]

Init == InitOf(Users, "every", AnyFaults, "plain")

\* ------------------------------------------------ chart block of an answer
\* An answer is a sequence of fragments: words, the whitespace " ", the two
\* markers, and JSON objects, which like the markers begin with "{" and end
\* with "}".
ChartOpen == "{CHART_DATA}"
ChartClose == "{/CHART_DATA}"

LineChartJson == "{chart_type: line, labels: [Jan, Feb], values: [10, 20]}"

ScatterJson == "{chart_type: scatter, labels: [Jan, Feb], values: [10, 20]}"

\* json.loads of one fragment: the dict of a JSON object, NoChart for a
\* fragment json.loads raises JSONDecodeError on
ChartObject(fragment) ==
    IF fragment = LineChartJson
    THEN [chart_type |-> "line", labels |-> <<"Jan", "Feb">>, values |-> <<10, 20>>]
    ELSE IF fragment = ScatterJson
    THEN [chart_type |-> "scatter", labels |-> <<"Jan", "Feb">>, values |-> <<10, 20>>]
    ELSE IF fragment = UnevenJson
    THEN [chart_type |-> "bar", labels |-> <<"Jan", "Feb", "Mar">>, values |-> <<10, 20>>]
    ELSE IF fragment = SinglePointJson
    THEN [chart_type |-> "pie", labels |-> <<"Jan">>, values |-> <<10>>]
    ELSE IF fragment = NoValuesJson
    THEN [chart_type |-> "bar", labels |-> <<"Jan", "Feb">>]
    ELSE NoChart

\* \s matches the fragment
IsSpace(fragment) == fragment = " "

\* \{ matches the start of the fragment and \} its end
Braced(fragment) ==
    fragment \in {ChartOpen, ChartClose, LineChartJson, ScatterJson, UnevenJson,
                  SinglePointJson, NoValuesJson}

\* where \s* ends when it starts at position i
SkipSpaces(text, i) ==
    LET others == {j \in i..Len(text) : ~IsSpace(text[j])}
    IN  IF others = {} THEN Len(text) + 1
        ELSE CHOOSE j \in others : \A k \in others : j <= k

\* the groups (\{[\s\S]*?\}) of the matches of
\* \{CHART_DATA\}\s*(\{[\s\S]*?\})\s*\{/CHART_DATA\} that start at position i
GroupsAt(text, i) ==
    LET first == SkipSpaces(text, i + 1)
    IN  IF text[i] # ChartOpen \/ first > Len(text) THEN {}
        ELSE IF ~Braced(text[first]) THEN {}
        ELSE {[first |-> first, last |-> last] : last \in
                {l \in first..Len(text) :
                    /\ Braced(text[l])
                    /\ SkipSpaces(text, l + 1) <= Len(text)
                    /\ text[SkipSpaces(text, l + 1)] = ChartClose}}

\* re.search: the group of the leftmost match, the shortest one there
ChartGroup(text) ==
    LET starts == {i \in DOMAIN text : GroupsAt(text, i) # {}}
        start  == CHOOSE i \in starts : \A j \in starts : i <= j
    IN  CHOOSE g \in GroupsAt(text, start) :
            \A h \in GroupsAt(text, start) : g.last <= h.last

_parse_chart_from_response(text) ==
    IF text = NoText \/ \A i \in DOMAIN text : GroupsAt(text, i) = {} THEN NoChart
    ELSE LET match      == ChartGroup(text)
             chart_data == IF match.first = match.last
                           THEN ChartObject(text[match.first]) ELSE NoChart
         IN  IF /\ {"chart_type", "labels", "values"} \subseteq DOMAIN chart_data
                /\ chart_data.chart_type \in {"bar", "line", "pie"}
             THEN chart_data ELSE NoChart

\* re.sub(r'\{CHART_DATA\}[\s\S]*?\{/CHART_DATA\}\s*', '', text)
RECURSIVE SubBlocks(_)
SubBlocks(text) ==
    IF text = <<>> THEN <<>>
    ELSE LET closes == {c \in 2..Len(text) : text[c] = ChartClose}
             close  == CHOOSE c \in closes : \A d \in closes : c <= d
         IN  IF Head(text) = ChartOpen /\ closes # {}
             THEN SubBlocks(SubSeq(text, SkipSpaces(text, close + 1), Len(text)))
             ELSE <<Head(text)>> \o SubBlocks(Tail(text))

\* str.strip()
strip(text) ==
    LET others == {j \in DOMAIN text : ~IsSpace(text[j])}
    IN  IF others = {} THEN <<>>
        ELSE SubSeq(text, CHOOSE j \in others : \A k \in others : j <= k,
                          CHOOSE j \in others : \A k \in others : j >= k)

\* a variant of _clean_chart_markers without the final strip()
_clean_chart_markers_unstripped(text) ==
    IF text = NoText THEN text ELSE SubBlocks(text)

_clean_chart_markers(text) ==
    IF text = NoText THEN text ELSE strip(SubBlocks(text))

\* ------------------------------------------------------------- the actions
\* the except branch of process_message: finalize the audit record with the
\* error and return the failure result
ExceptionReturn(e, called, write_ok) ==
    /\ error_message' = e
    /\ chat_audit_logs' = _update_audit_log(chat_audit_logs, audit_log_id,
                                            ErrorUpdate(e), write_ok)
    /\ audit_faults' = audit_faults \cup
                           (IF Truthy(audit_log_id) /\ ~write_ok THEN {"update"} ELSE {})
    /\ result' = [returned |-> TRUE,
                  success |-> FALSE,
                  response |-> _get_user_friendly_error(e),
                  processing_time_ms |-> "elapsed",
                  tools_called |-> called,
                  error |-> e]
    /\ pc' = "done"

\* process_message up to the try block: log_query creates the audit record
CreateAuditLog ==
    /\ pc = "idle"
    /\ \E insert_ok \in faults.store_ok :
         LET created == log_query(chat_audit_logs, session_id, user, user_message,
                                  insert_ok)
         IN  /\ chat_audit_logs' = created.logs
             /\ audit_log_id' = created.name
             /\ raised' = created.exc
             /\ audit_faults' = IF insert_ok THEN audit_faults
                                 ELSE audit_faults \cup {"insert"}
             /\ pc' = IF created.exc = None THEN "first_model_call" ELSE "done"
    /\ UNCHANGED <<user, chat_sessions, chat_messages, tool_call_logs, tool_calls,
                   tools_called, data_accessed, permission_checks_passed,
                   tool_results, model_requests, response_text, total_tokens,
                   result, error_message, dispatched>>
    /\ UNCHANGED <<call, api>>

\* messages = [system] + context + [user]
FirstMessages ==
    <<[role |-> "system", content |-> SYSTEM_PROMPT]>>
    \o get_context_messages(chat_messages, session_id, ContextLimit)
    \o <<[role |-> "user", content |-> user_message]>>

\* the context fetch, get_ai_client and the first model call, with tools
FirstModelCall ==
    /\ pc = "first_model_call"
    /\ \/ \E e \in faults.setup_errors, write_ok \in faults.store_ok :
            /\ ExceptionReturn(e, tools_called, write_ok)
            /\ UNCHANGED <<model_requests, tool_calls, response_text, total_tokens>>
       \/ \E e \in faults.model_errors, write_ok \in faults.store_ok :
            /\ ExceptionReturn(e, tools_called, write_ok)
            /\ model_requests' = Append(model_requests,
                                   [messages |-> FirstMessages, tools |-> TRUE])
            /\ UNCHANGED <<tool_calls, response_text, total_tokens>>
       \/ \E calls \in ToolCallListsOf(tool_call_lists) :
            /\ model_requests' = Append(model_requests,
                                   [messages |-> FirstMessages, tools |-> TRUE])
            /\ tool_calls' = calls
            /\ total_tokens' = IF calls = <<>> THEN 1 ELSE total_tokens
            /\ \E content \in AnswersOf(answers) :
                 response_text' = IF calls = <<>> THEN content ELSE response_text
            /\ pc' = IF calls = <<>> THEN "store_user" ELSE "tool_calls"
            /\ UNCHANGED outcome
    /\ UNCHANGED <<user, chat_sessions, chat_messages, tool_call_logs, audit_log_id,
                   tools_called, data_accessed, permission_checks_passed,
                   tool_results, raised, dispatched>>
    /\ UNCHANGED <<call, api>>

\* what `dispatched` keeps of one call of execute_tool; run_ok tells that the
\* report executor did not fail in the call
Dispatch(tool_call, tool_args, env, r) ==
    [name |-> tool_call.name, arguments |-> tool_args, user |-> user,
     audit_log_id |-> audit_log_id,
     run_ok |-> env.run_ok \/ \A i \in DOMAIN r.events : r.events[i][1] # "run",
     log_insert_ok |-> env.log_insert_ok, status |-> r.status,
     result |-> r.result, tool_exc |-> r.tool_exc, tool_text |-> r.tool_text,
     logs |-> r.logs, events |-> r.events]

\* one round of the loop over assistant_message.tool_calls
DispatchToolCall ==
    /\ pc = "tool_calls"
    /\ LET i == Len(tool_results) + 1
           tool_call == tool_calls[i]
       IN  IF ~JsonValid(tool_call.arguments)
           THEN /\ \E write_ok \in faults.store_ok :
                     ExceptionReturn(<<JsonDecodeErrorText>>, tools_called, write_ok)
                /\ UNCHANGED <<tool_call_logs, tools_called, data_accessed,
                               permission_checks_passed, tool_results, dispatched>>
           ELSE \E run_ok \in faults.run_ok, log_insert_ok \in faults.store_ok :
                  LET tool_args == json_loads(tool_call.arguments)
                      env == [session_user |-> user, run_ok |-> run_ok,
                              log_insert_ok |-> log_insert_ok]
                      r == execute_tool(tool_call.name, tool_args, session_id,
                                        audit_log_id, user, env)
                  IN  /\ tools_called' = tools_called + 1
                      /\ tool_call_logs' = tool_call_logs \o r.logs
                      /\ dispatched' = Append(dispatched,
                                              Dispatch(tool_call, tool_args, env, r))
                      /\ IF r.exc # None
                         THEN /\ \E write_ok \in faults.store_ok :
                                   ExceptionReturn(r.tool_text, tools_called + 1, write_ok)
                              /\ UNCHANGED <<data_accessed, permission_checks_passed,
                                             tool_results>>
                         ELSE /\ tool_results' = Append(tool_results,
                                     [tool_call_id |-> i, role |-> "tool",
                                      content |-> r.result])
                              /\ data_accessed' = Append(data_accessed,
                                     [tool |-> tool_call.name, arguments |-> r.arguments])
                              /\ permission_checks_passed' =
                                     IF r.status = "permission_denied" THEN FALSE
                                     ELSE permission_checks_passed
                              /\ pc' = IF i = Len(tool_calls) THEN "second_model_call"
                                       ELSE "tool_calls"
                              /\ UNCHANGED outcome
    /\ UNCHANGED <<user, chat_sessions, chat_messages, audit_log_id, tool_calls,
                   model_requests, response_text, total_tokens, raised>>
    /\ UNCHANGED <<call, api>>

\* messages + the assistant's tool-call message + the tool results
SecondMessages ==
    model_requests[1].messages
    \o <<[role |-> "assistant", tool_calls |-> tool_calls]>>
    \o tool_results

\* a variant of the second request that offers the tools again
SecondRequest_with_tools == [messages |-> SecondMessages, tools |-> TRUE]

\* client.chat.completions.create(model, messages, max_tokens): no tools
SecondRequest == [messages |-> SecondMessages, tools |-> FALSE]

\* the second model call, without tools
SecondModelCall ==
    /\ pc = "second_model_call"
    /\ model_requests' = Append(model_requests, SecondRequest)
    /\ \/ \E e \in faults.model_errors, write_ok \in faults.store_ok :
            /\ ExceptionReturn(e, tools_called, write_ok)
            /\ UNCHANGED <<response_text, total_tokens>>
       \/ /\ \E content \in AnswersOf(answers) : response_text' = content
          /\ total_tokens' = 1 + 1
          /\ pc' = "store_user"
          /\ UNCHANGED outcome
    /\ UNCHANGED <<user, chat_sessions, chat_messages, tool_call_logs, audit_log_id,
                   tool_calls, tools_called, data_accessed, permission_checks_passed,
                   tool_results, raised, dispatched>>
    /\ UNCHANGED <<call, api>>

\* ChatMessage.create_message(role="user")
StoreUserMessage ==
    /\ pc = "store_user"
    /\ LET stored == create_message(chat_messages, chat_sessions, session_id, "user",
                                    user_message, 0)
       IN  IF stored.exc # NoText
           THEN /\ \E write_ok \in faults.store_ok :
                     ExceptionReturn(stored.exc, tools_called, write_ok)
                /\ UNCHANGED <<chat_messages, chat_sessions>>
           ELSE /\ chat_messages' = stored.messages
                /\ chat_sessions' = stored.sessions
                /\ pc' = "store_assistant"
                /\ UNCHANGED outcome
    /\ UNCHANGED <<user, tool_call_logs, locals, raised, dispatched>>
    /\ UNCHANGED <<call, api>>

\* ChatMessage.create_message(role="assistant")
StoreAssistantMessage ==
    /\ pc = "store_assistant"
    /\ LET stored == create_message(chat_messages, chat_sessions, session_id,
                                    "assistant", response_text, total_tokens)
       IN  IF stored.exc # NoText
           THEN /\ \E write_ok \in faults.store_ok :
                     ExceptionReturn(stored.exc, tools_called, write_ok)
                /\ UNCHANGED <<chat_messages, chat_sessions>>
           ELSE /\ chat_messages' = stored.messages
                /\ chat_sessions' = stored.sessions
                /\ pc' = "finalize"
                /\ UNCHANGED outcome
    /\ UNCHANGED <<user, tool_call_logs, locals, raised, dispatched>>
    /\ UNCHANGED <<call, api>>

\* the finalize-update of the success path, the chart extraction and the return
FinalizeAndReturn ==
    /\ pc = "finalize"
    /\ \E write_ok \in faults.store_ok :
         /\ chat_audit_logs' =
              _update_audit_log(chat_audit_logs, audit_log_id,
                                SuccessUpdate(response_text, data_accessed,
                                              permission_checks_passed, tools_called),
                                write_ok)
         /\ audit_faults' = audit_faults \cup
                (IF Truthy(audit_log_id) /\ ~write_ok THEN {"update"} ELSE {})
    /\ result' = [returned |-> TRUE,
                  success |-> TRUE,
                  response |-> _clean_chart_markers(response_text),
                  chart |-> _parse_chart_from_response(response_text),
                  processing_time_ms |-> "elapsed",
                  tools_called |-> tools_called,
                  token_count |-> total_tokens]
    /\ pc' = "done"
    /\ UNCHANGED <<user, chat_sessions, chat_messages, tool_call_logs, locals,
                   error_message, raised, dispatched>>
    /\ UNCHANGED <<call, api>>

\* session_manager.close_session by the owner, at any moment of the turn
close_session ==
    /\ chat_sessions[session_id].status = "Active"
    /\ chat_sessions' = [chat_sessions EXCEPT ![session_id].status = "Closed"]
    /\ UNCHANGED <<pc, user, chat_messages, chat_audit_logs, tool_call_logs, locals,
                   result, error_message, raised, audit_faults, dispatched>>
    /\ UNCHANGED <<call, api>>

Next ==
    \/ CreateAuditLog
    \/ FirstModelCall
    \/ DispatchToolCall
    \/ SecondModelCall
    \/ StoreUserMessage
    \/ StoreAssistantMessage
    \/ FinalizeAndReturn
    \/ close_session

Spec == Init /\ [][Next]_vars

\* ------------------------------------------- the turns with a chart answer
\* a turn of alice in which the model answers at once or after one tool call,
\* with any of the answers of ChartAnswers, and nothing fails
AnswerInit ==
    InitOf({"alice"}, "some",
           [setup_errors |-> {}, model_errors |-> {}, store_ok |-> {TRUE},
            run_ok |-> {TRUE}],
           "charts")

AnswerSpec == AnswerInit /\ [][Next]_vars

\* the same turn with the answers of DescriptorAnswers
DescriptorInit ==
    InitOf({"alice"}, "some",
           [setup_errors |-> {}, model_errors |-> {}, store_ok |-> {TRUE},
            run_ok |-> {TRUE}],
           "descriptors")

DescriptorSpec == DescriptorInit /\ [][Next]_vars

\* --------------------------------------- the turns with scoped tool calls
\* a turn of a subject with a company allow-list whose model response
\* requests calls without company or with context values of its own; the
\* audit store may fail
ScopeInit ==
    InitOf({"alice", "bob"}, "scoped",
           [setup_errors |-> {}, model_errors |-> {}, store_ok |-> BOOLEAN,
            run_ok |-> {TRUE}],
           "plain")

ScopeSpec == ScopeInit /\ [][Next]_vars

\* ------------------------------------------------------ the API endpoints
\* the bounds of the runs of the API
MaxSessions == 1

MaxTurns == 2

MaxApiCalls == 2

\* a session id no session has
NoSessionId == "s0"

\* the session ids the site gives
SessionIds == {SessionNames[n] : n \in 1..MaxSessions}

\* the failures considered in the runs of the API: none, the stores accept
\* every write, the tools run and the model answers
ApiFaults ==
    [setup_errors |-> {}, model_errors |-> {}, store_ok |-> {TRUE},
     run_ok |-> {TRUE}]

\* the site between two requests, with the sessions and the messages given:
\* no turn is under way, no audit record, nothing in the cache
SiteInitFor(subjects, sessions, messages, created, lists, flight) ==
    /\ pc = "api"
    /\ user = "Administrator"
    /\ chat_sessions = sessions
    /\ chat_messages = messages
    /\ chat_audit_logs = <<>>
    /\ tool_call_logs = <<>>
    /\ audit_log_id = None
    /\ tool_calls = <<>>
    /\ tools_called = 0
    /\ data_accessed = <<>>
    /\ permission_checks_passed = TRUE
    /\ tool_results = <<>>
    /\ model_requests = <<>>
    /\ response_text = NoText
    /\ total_tokens = 0
    /\ result = NoResult
    /\ error_message = NoText
    /\ audit_faults = {}
    /\ raised = None
    /\ dispatched = <<>>
    /\ session_id = None
    /\ user_message = NoText
    /\ tool_call_lists = lists
    /\ faults = ApiFaults
    /\ answers = "plain"
    /\ builder_call = NoCall
    /\ builder_result = NoChart
    /\ in_flight = flight
    /\ sessions_created = created
    /\ rate_limit_cache = [u \in subjects |-> <<>>]
    /\ accepted_calls = [u \in subjects |-> <<>>]
    /\ now = 0
    /\ turns = 0
    /\ api_result = NoResult

\* the site whose cache holds a list for each of the Users
SiteInit(sessions, messages, created, lists, flight) ==
    SiteInitFor(Users, sessions, messages, created, lists, flight)

\* the state before any request: no session, no record, nothing in the cache
ApiInit ==
    SiteInit([sid \in {} |-> NewSession("Administrator")], <<>>, 0, "one",
             NoneInFlight)

\* the locals of process_message and what is kept of its call, at its start
TurnReset ==
    /\ audit_log_id' = None
    /\ tool_calls' = <<>>
    /\ tools_called' = 0
    /\ data_accessed' = <<>>
    /\ permission_checks_passed' = TRUE
    /\ tool_results' = <<>>
    /\ model_requests' = <<>>
    /\ response_text' = NoText
    /\ total_tokens' = 0
    /\ result' = NoResult
    /\ error_message' = NoText
    /\ audit_faults' = {}
    /\ dispatched' = <<>>

\* what a request that is not send_message leaves alone of the turn in progress
turn == <<pc, user, locals, result, error_message, raised, audit_faults,
          dispatched, call>>

\* api.chat.create_session
CreateSession ==
    /\ sessions_created < MaxSessions
    /\ \E u \in Users :
         LET made == create_session(chat_sessions, sessions_created, u)
         IN  /\ chat_sessions' = made.sessions
             /\ sessions_created' = sessions_created + 1
    /\ UNCHANGED <<turn, chat_messages, chat_audit_logs, tool_call_logs,
                   rate_limit_cache, accepted_calls, now, turns, api_result>>

\* the record of the calls that passed check_rate_limit in send_message, kept
\* apart from the cache: the times of the calls of a subject that is not the
\* Administrator, those more than RateWindow seconds back left out
Accepted(accepted, u, stage, current_time) ==
    IF u = "Administrator" \/ stage = "rate_limit" THEN accepted
    ELSE [accepted EXCEPT ![u] =
            Append(SelectSeq(@, LAMBDA ts : current_time - ts < RateWindow),
                   current_time)]

\* api.chat.send_message up to the call of process_message, for the session
\* ids and the messages given, by a user who made at most max_calls calls in
\* the window, while fewer than max_turns turns were started
SendMessageOf(sids, messages, max_calls, max_turns) ==
    /\ pc = "api"
    /\ \E u \in Users, sid \in sids, message \in messages :
         LET checked == send_message_checks(rate_limit_cache, chat_sessions, u, sid,
                                            message, now)
         IN  /\ Len(checked.cache[u]) <= max_calls
             /\ rate_limit_cache' = checked.cache
             /\ accepted_calls' = Accepted(accepted_calls, u, checked.stage, now)
             /\ IF checked.accepted
                THEN /\ turns < max_turns
                     /\ pc' = "idle"
                     /\ user' = u
                     /\ session_id' = sid
                     /\ user_message' = checked.clean_message
                     /\ turns' = turns + 1
                     /\ api_result' = [returned |-> FALSE, user |-> u,
                                       session_id |-> sid, message |-> message,
                                       stage |-> checked.stage]
                ELSE /\ api_result' =
                          [returned |-> TRUE, user |-> u, session_id |-> sid,
                           message |-> message, success |-> FALSE,
                           stage |-> checked.stage, error |-> checked.error,
                           retry_after |-> checked.retry_after]
                     /\ UNCHANGED <<pc, user, session_id, user_message, turns>>
    /\ UNCHANGED <<chat_sessions, chat_messages, chat_audit_logs, tool_call_logs,
                   locals, result, error_message, raised, audit_faults, dispatched,
                   tool_call_lists, faults, answers, builder_call, builder_result,
                   in_flight,
                   sessions_created, now>>

\* the requests of the clients that hold a session id the site gave them
SendMessage ==
    SendMessageOf(SessionIds, {UserMessage, QuotesMessage}, MaxApiCalls, MaxTurns)

\* api.chat.send_message after process_message returned (or raised)
SendMessageReturn ==
    /\ pc = "done"
    /\ api_result' =
          IF raised # None
          THEN [returned |-> TRUE, user |-> user, session_id |-> session_id,
                message |-> api_result.message, success |-> FALSE,
                stage |-> "process_message", error |-> GenericSendError,
                retry_after |-> 0]
          ELSE [returned |-> TRUE, user |-> user, session_id |-> session_id,
                message |-> api_result.message, success |-> result.success,
                stage |-> "process_message", error |-> NoText, retry_after |-> 0]
    /\ pc' = "api"
    /\ TurnReset
    /\ raised' = None
    /\ user' = "Administrator"
    /\ session_id' = None
    /\ user_message' = NoText
    /\ UNCHANGED <<chat_sessions, chat_messages, chat_audit_logs, tool_call_logs,
                   tool_call_lists, faults, answers, builder_call, builder_result,
                   in_flight,
                   sessions_created, rate_limit_cache, accepted_calls, now, turns>>

\* api.chat.close_session
ApiCloseSession ==
    /\ \E u \in Users, sid \in SessionIds :
         LET owned  == validate_session_ownership(chat_sessions, sid, u)
             closed == close_session_doc(chat_sessions, sid, u)
         IN  IF owned.exc # None
             THEN UNCHANGED chat_sessions
             ELSE chat_sessions' = closed.sessions
    /\ UNCHANGED <<turn, chat_messages, chat_audit_logs, tool_call_logs,
                   sessions_created, rate_limit_cache, accepted_calls, now, turns, api_result>>

\* api.chat.delete_session
ApiDeleteSession ==
    /\ \E u \in Users, sid \in SessionIds :
         LET owned   == validate_session_ownership(chat_sessions, sid, u)
             deleted == delete_session(chat_sessions, chat_messages, sid, u)
         IN  IF owned.exc # None
             THEN UNCHANGED <<chat_sessions, chat_messages>>
             ELSE /\ chat_sessions' = deleted.sessions
                  /\ chat_messages' = deleted.messages
    /\ UNCHANGED <<turn, chat_audit_logs, tool_call_logs, sessions_created,
                   rate_limit_cache, accepted_calls, now, turns, api_result>>

\* the hourly job session_manager.expire_inactive_sessions
ExpireInactiveSessions ==
    /\ chat_sessions' = expire_inactive_sessions(chat_sessions)
    /\ UNCHANGED <<turn, chat_messages, chat_audit_logs, tool_call_logs,
                   sessions_created, rate_limit_cache, accepted_calls, now, turns, api_result>>

\* the daily job session_manager.delete_old_sessions
DeleteOldSessions ==
    /\ LET swept == delete_old_sessions(chat_sessions, chat_messages)
       IN  /\ chat_sessions' = swept.sessions
           /\ chat_messages' = swept.messages
    /\ UNCHANGED <<turn, chat_audit_logs, tool_call_logs, sessions_created,
                   rate_limit_cache, accepted_calls, now, turns, api_result>>

\* the statuses of a Chat Session
Statuses == {"Active", "Closed", "Expired"}

\* Document.save of a Chat Session with its status set, which runs
\* ChatSession.validate
SaveSession ==
    /\ \E sid \in DOMAIN chat_sessions, status \in Statuses :
         LET saved == save_session(chat_sessions, sid, status)
         IN  chat_sessions' = saved.sessions
    /\ UNCHANGED <<turn, chat_messages, chat_audit_logs, tool_call_logs,
                   sessions_created, rate_limit_cache, accepted_calls, now, turns, api_result>>

\* Document.save of a Chat Audit Log or AI Tool Call Log record with its
\* session_id changed, which runs validate
SaveLog ==
    /\ \E doctype \in {"Chat Audit Log", "AI Tool Call Log"} :
         LET logs == IF doctype = "Chat Audit Log" THEN chat_audit_logs
                     ELSE tool_call_logs
         IN  \E i \in DOMAIN logs :
               LET saved == save_log(doctype, logs, i, "session_id", NoSessionId)
               IN  /\ chat_audit_logs' = IF doctype = "Chat Audit Log"
                                         THEN saved.logs ELSE chat_audit_logs
                   /\ tool_call_logs' = IF doctype = "Chat Audit Log"
                                        THEN tool_call_logs ELSE saved.logs
    /\ UNCHANGED <<turn, chat_sessions, chat_messages, sessions_created,
                   rate_limit_cache, accepted_calls, now, turns, api_result>>

\* frappe.delete_doc of a Chat Audit Log or AI Tool Call Log record, which
\* runs on_trash
DeleteLog ==
    /\ \E doctype \in {"Chat Audit Log", "AI Tool Call Log"} :
         LET logs == IF doctype = "Chat Audit Log" THEN chat_audit_logs
                     ELSE tool_call_logs
         IN  \E i \in DOMAIN logs :
               LET deleted == delete_log(doctype, logs, i)
               IN  /\ chat_audit_logs' = IF doctype = "Chat Audit Log"
                                         THEN deleted.logs ELSE chat_audit_logs
                   /\ tool_call_logs' = IF doctype = "Chat Audit Log"
                                        THEN tool_call_logs ELSE deleted.logs
    /\ UNCHANGED <<turn, chat_sessions, chat_messages, sessions_created,
                   rate_limit_cache, accepted_calls, now, turns, api_result>>

\* the seconds of a day, and the days sessions are kept
DaySeconds == 86400

RetentionDays == 90

\* the days the clock may pass
MaxDays == 1

\* the cache once more than RateWindow seconds passed: the keys check_rate_limit
\* set with expires_in_sec = window are gone
ExpiredCache == [u \in Users |-> <<>>]

\* more than 24 hours pass: the last activity of every session is then more
\* than 24 hours back
DayPasses ==
    /\ now < MaxDays * DaySeconds
    /\ now' = now + DaySeconds + 1
    /\ chat_sessions' = [sid \in DOMAIN chat_sessions |->
                            [chat_sessions[sid] EXCEPT !.inactive = TRUE]]
    /\ rate_limit_cache' = ExpiredCache
    /\ accepted_calls' = ExpiredCache
    /\ UNCHANGED <<turn, chat_messages, chat_audit_logs, tool_call_logs,
                   sessions_created, turns, api_result>>

\* more than the retention period passes: every session is then older than it
RetentionPasses ==
    /\ now < MaxDays * DaySeconds
    /\ now' = now + RetentionDays * DaySeconds + 1
    /\ chat_sessions' = [sid \in DOMAIN chat_sessions |->
                            [chat_sessions[sid] EXCEPT !.inactive = TRUE,
                                                       !.old = TRUE]]
    /\ rate_limit_cache' = ExpiredCache
    /\ accepted_calls' = ExpiredCache
    /\ UNCHANGED <<turn, chat_messages, chat_audit_logs, tool_call_logs,
                   sessions_created, turns, api_result>>

\* the requests, the jobs and the passing of time
ApiNext ==
    \/ CreateSession
    \/ SendMessage
    \/ CreateAuditLog
    \/ FirstModelCall
    \/ DispatchToolCall
    \/ SecondModelCall
    \/ StoreUserMessage
    \/ StoreAssistantMessage
    \/ FinalizeAndReturn
    \/ SendMessageReturn
    \/ ApiCloseSession
    \/ ApiDeleteSession
    \/ ExpireInactiveSessions
    \/ DeleteOldSessions
    \/ SaveSession
    \/ SaveLog
    \/ DeleteLog
    \/ DayPasses
    \/ RetentionPasses

ApiSpec == ApiInit /\ [][ApiNext]_vars

\* ------------------------------------------------- the requests rejected
\* the turns of the runs below
MaxRequestTurns == 1

\* the requests of any client: every session id, well-formed or not, and every
\* message
AnyMessage ==
    SendMessageOf({NoSessionId} \cup SessionIds,
                  {UserMessage, NoText, BlankMessage, OversizeMessage, MarkupMessage},
                  MaxApiCalls, MaxRequestTurns)

RequestNext ==
    \/ CreateSession
    \/ AnyMessage
    \/ CreateAuditLog
    \/ FirstModelCall
    \/ DispatchToolCall
    \/ SecondModelCall
    \/ StoreUserMessage
    \/ StoreAssistantMessage
    \/ FinalizeAndReturn
    \/ SendMessageReturn
    \/ ApiCloseSession
    \/ ExpireInactiveSessions
    \/ DayPasses

RequestSpec == ApiInit /\ [][RequestNext]_vars

\* ----------------------------------------------------- the rate limit
\* the seconds between two readings of the clock, and the last reading
TickSeconds == 30

MaxClock == 60

\* time.time() advances
Tick ==
    /\ now < MaxClock
    /\ now' = now + TickSeconds
    /\ UNCHANGED <<turn, chat_sessions, chat_messages, chat_audit_logs,
                   tool_call_logs, sessions_created, rate_limit_cache, accepted_calls, turns,
                   api_result>>

\* the requests of a client that calls as often as the limit allows
FrequentMessage ==
    SendMessageOf({NoSessionId} \cup SessionIds, {UserMessage}, RateLimit,
                  MaxRequestTurns)

RateNext ==
    \/ CreateSession
    \/ FrequentMessage
    \/ CreateAuditLog
    \/ FirstModelCall
    \/ DispatchToolCall
    \/ SecondModelCall
    \/ StoreUserMessage
    \/ StoreAssistantMessage
    \/ FinalizeAndReturn
    \/ SendMessageReturn
    \/ Tick

RateSpec == ApiInit /\ [][RateNext]_vars

\* ------------------------------------------- the turns of a long session
\* the turns of the runs below
MaxContextTurns == 2

\* the Chat Messages a session holds after `count` of them were stored by
\* turns that succeeded: user message and assistant answer in turn
PriorMessages(sid, count) ==
    [i \in 1..count |->
        [session_id |-> sid,
         role |-> IF i % 2 = 1 THEN "user" ELSE "assistant",
         content |-> <<"earlier message", ToString(i), "of", sid>>,
         token_count |-> IF i % 2 = 1 THEN 0 ELSE 1]]

\* the sizes of the session's history around the context window, and of the
\* history of another session whose messages are the most recent of the store
PriorCounts == {0, 2, ContextLimit, ContextLimit + 2}

OtherCounts == {2}

\* the site with the session s1 of alice and the session s2 of another user,
\* both with a history, before the next request
ContextInit ==
    \E count \in PriorCounts, others \in OtherCounts :
        SiteInit([sid \in {SessionNames[1], SessionNames[2]} |->
                    IF sid = SessionNames[1]
                    THEN [NewSession("alice") EXCEPT !.message_count = count,
                                                     !.total_tokens = count \div 2]
                    ELSE [NewSession("Administrator") EXCEPT
                                                     !.message_count = others,
                                                     !.total_tokens = others \div 2]],
                 PriorMessages(SessionNames[1], count)
                 \o PriorMessages(SessionNames[2], others),
                 2, "some", NoneInFlight)

\* the next message of the session
ContextSendMessage ==
    SendMessageOf({SessionNames[1]}, {UserMessage}, MaxApiCalls, MaxContextTurns)

\* the turns of the session, the owner's close_session and the saves of the
\* session document
ContextNext ==
    \/ ContextSendMessage
    \/ CreateAuditLog
    \/ FirstModelCall
    \/ DispatchToolCall
    \/ SecondModelCall
    \/ StoreUserMessage
    \/ StoreAssistantMessage
    \/ FinalizeAndReturn
    \/ SendMessageReturn
    \/ ApiCloseSession
    \/ SaveSession

ContextSpec == ContextInit /\ [][ContextNext]_vars

\* --------------------------------------------- the expiry sweep in steps
\* expire_inactive_sessions up to its loop: frappe.get_all lists the Active
\* sessions whose last_activity is more than 24 hours back
SweepQuery ==
    /\ in_flight = NoneInFlight
    /\ in_flight' = [job |-> "expire_inactive_sessions",
                     inactive_sessions |->
                        {sid \in DOMAIN chat_sessions :
                            /\ chat_sessions[sid].status = "Active"
                            /\ chat_sessions[sid].inactive}]
    /\ UNCHANGED <<pc, user, store, locals, result, error_message, raised,
                   audit_faults, dispatched, session_id, user_message,
                   tool_call_lists, faults, answers, builder_call, builder_result,
                   api>>

\* one round of the loop of expire_inactive_sessions: get_doc, status =
\* "Expired", save; an exception (the session is gone, validate throws) is
\* logged and the loop goes on
SweepSave ==
    /\ in_flight.job = "expire_inactive_sessions"
    /\ \E sid \in in_flight.inactive_sessions :
         /\ chat_sessions' = IF sid \in DOMAIN chat_sessions
                             THEN save_session(chat_sessions, sid, "Expired").sessions
                             ELSE chat_sessions
         /\ in_flight' = [in_flight EXCEPT !.inactive_sessions = @ \ {sid}]
    /\ UNCHANGED <<pc, user, chat_messages, chat_audit_logs, tool_call_logs, locals,
                   result, error_message, raised, audit_faults, dispatched,
                   session_id, user_message, tool_call_lists, faults, answers,
                   builder_call, builder_result, api>>

\* the end of expire_inactive_sessions
SweepReturn ==
    /\ in_flight.job = "expire_inactive_sessions"
    /\ in_flight.inactive_sessions = {}
    /\ in_flight' = NoneInFlight
    /\ UNCHANGED <<pc, user, store, locals, result, error_message, raised,
                   audit_faults, dispatched, session_id, user_message,
                   tool_call_lists, faults, answers, builder_call, builder_result,
                   api>>

\* the requests of the clients, the passing of a day and the hourly job, whose
\* steps interleave with those of the requests
SweepNext ==
    \/ CreateSession
    \/ SendMessage
    \/ CreateAuditLog
    \/ FirstModelCall
    \/ DispatchToolCall
    \/ SecondModelCall
    \/ StoreUserMessage
    \/ StoreAssistantMessage
    \/ FinalizeAndReturn
    \/ SendMessageReturn
    \/ ApiCloseSession
    \/ DayPasses
    \/ SweepQuery
    \/ SweepSave
    \/ SweepReturn

SweepSpec == ApiInit /\ [][SweepNext]_vars

\* ------------------------------------------------- the concurrent requests
\* the turns that run at the same time against one session
MaxConcurrentTurns == 2

ConcurrentTurns == 1..MaxConcurrentTurns

\* what the steps below leave alone
beside == <<pc, user, chat_audit_logs, tool_call_logs, locals, result,
            error_message, raised, audit_faults, dispatched, session_id,
            user_message, tool_call_lists, faults, answers, builder_call,
            builder_result, api>>

\* no Chat Session document was loaded
NotRead == [status |-> None]

\* the user message and the answer of turn t, and the tokens of the answer
TurnContent(t, role) ==
    IF role = "user" THEN <<"message of turn", ToString(t)>>
    ELSE <<"answer of turn", ToString(t)>>

TurnTokens(role) == IF role = "user" THEN 0 ELSE 1

\* a call of process_message whose model call has answered without tool
\* calls and which is about to store its two messages: `role` is the message
\* it is at, `step` the place in create_message (insert, then after_insert:
\* get_doc, then save), `doc` the Chat Session document get_doc loaded
StoringTurn == [role |-> "user", step |-> "insert", doc |-> NotRead, success |-> FALSE]

\* a call of delete_session or a round of the loop of delete_old_sessions
\* that has not begun
NoRemoval == [step |-> "idle", session_id |-> None]

\* the turns, and the removal, under way on the session
RequestsInFlight ==
    [job |-> "requests", turn |-> [t \in ConcurrentTurns |-> StoringTurn],
     removal |-> NoRemoval]

\* the turn after the create_message it is in: the next message, or the return
\* of process_message
AfterMessage(this) ==
    IF this.role = "user"
    THEN [this EXCEPT !.role = "assistant", !.step = "insert", !.doc = NotRead]
    ELSE [this EXCEPT !.step = "done", !.doc = NotRead, !.success = TRUE]

\* message.insert of create_message: validate, then the insert; an exception
\* of validate ends the turn in the except branch of process_message
InsertMessage ==
    /\ in_flight.job = "requests"
    /\ \E t \in ConcurrentTurns :
         LET this  == in_flight.turn[t]
             error == _validate_session(chat_sessions, SessionId)
         IN  /\ this.step = "insert"
             /\ IF error # NoText
                THEN /\ in_flight' = [in_flight EXCEPT !.turn[t].step = "done"]
                     /\ UNCHANGED chat_messages
                ELSE /\ chat_messages' =
                          Append(chat_messages,
                                 [session_id |-> SessionId, role |-> this.role,
                                  content |-> TurnContent(t, this.role),
                                  token_count |-> TurnTokens(this.role)])
                     /\ in_flight' = [in_flight EXCEPT !.turn[t].step = "get_doc"]
    /\ UNCHANGED <<chat_sessions, beside>>

\* _update_session_stats, first half: frappe.get_doc loads the Chat Session;
\* when it is gone the exception is logged and create_message returns
GetSessionDoc ==
    /\ in_flight.job = "requests"
    /\ \E t \in ConcurrentTurns :
         LET this == in_flight.turn[t]
         IN  /\ this.step = "get_doc"
             /\ in_flight' =
                   [in_flight EXCEPT !.turn[t] =
                       IF SessionId \in DOMAIN chat_sessions
                       THEN [this EXCEPT !.step = "save",
                                         !.doc = chat_sessions[SessionId]]
                       ELSE AfterMessage(this)]
    /\ UNCHANGED <<chat_sessions, chat_messages, beside>>

\* a variant of the saved document that counts on from the stored document
saved_session_atomic(doc, stored, token_count) ==
    increment_message_count(stored, token_count)

\* the document increment_message_count saves: the loaded one, counted on
saved_session(doc, stored, token_count) == increment_message_count(doc, token_count)

\* _update_session_stats, second half: increment_message_count sets the
\* fields of the loaded document and saves it.  The save writes the whole
\* document; when the stored document changed since get_doc the save either
\* overwrites it or raises TimestampMismatchError, and an exception (that
\* one, the session is gone, validate throws) is logged and swallowed
SaveSessionDoc ==
    /\ in_flight.job = "requests"
    /\ \E t \in ConcurrentTurns, overwrite \in BOOLEAN :
         LET this == in_flight.turn[t]
         IN  /\ this.step = "save"
             /\ chat_sessions' =
                   IF SessionId \notin DOMAIN chat_sessions THEN chat_sessions
                   ELSE IF _validate_status_transition(chat_sessions[SessionId].status,
                                                       this.doc.status) # NoText
                   THEN chat_sessions
                   ELSE IF chat_sessions[SessionId] # this.doc /\ ~overwrite
                   THEN chat_sessions
                   ELSE [chat_sessions EXCEPT ![SessionId] =
                            saved_session(this.doc, @, TurnTokens(this.role))]
             /\ in_flight' = [in_flight EXCEPT !.turn[t] = AfterMessage(this)]
    /\ UNCHANGED <<chat_messages, beside>>

\* the session s1 of alice, Active and empty, and the turns on it
TurnsInit ==
    SiteInit([sid \in {SessionId} |-> NewSession("alice")], <<>>, 1, "one",
             RequestsInFlight)

TurnsNext ==
    \/ InsertMessage
    \/ GetSessionDoc
    \/ SaveSessionDoc

TurnsSpec == TurnsInit /\ [][TurnsNext]_vars

\* ------------------------------------- the removal of a session in steps
\* api.chat.delete_session up to the deletes (the owner's request passes
\* validate_session_ownership and the check of the owner), or a round of the
\* loop of delete_old_sessions for a session older than the retention period
BeginRemoval ==
    /\ in_flight.job = "requests"
    /\ in_flight.removal.step = "idle"
    /\ SessionId \in DOMAIN chat_sessions
    /\ \E by \in {"delete_session", "delete_old_sessions"} :
         /\ IF by = "delete_session"
            THEN validate_session_ownership(chat_sessions, SessionId,
                                            chat_sessions[SessionId].user).exc = None
            ELSE chat_sessions[SessionId].old
         /\ in_flight' = [in_flight EXCEPT
                            !.removal = [step |-> "messages", session_id |-> SessionId,
                                         by |-> by]]
    /\ UNCHANGED <<chat_sessions, chat_messages, beside>>

\* frappe.db.delete("Chat Message", {"session_id": session_id})
DeleteMessages ==
    /\ in_flight.job = "requests"
    /\ in_flight.removal.step = "messages"
    /\ chat_messages' = delete_messages(chat_messages, in_flight.removal.session_id)
    /\ in_flight' = [in_flight EXCEPT !.removal.step = "session"]
    /\ UNCHANGED <<chat_sessions, beside>>

\* frappe.delete_doc("Chat Session", session_id).  delete_old_sessions forces
\* it; in delete_session a Chat Message that names the session may make it
\* raise, and then the session stays
DeleteSessionDoc ==
    /\ in_flight.job = "requests"
    /\ in_flight.removal.step = "session"
    /\ \E linked_raises \in BOOLEAN :
         chat_sessions' =
            IF /\ linked_raises
               /\ in_flight.removal.by = "delete_session"
               /\ SessionMessages(chat_messages, in_flight.removal.session_id) # {}
            THEN chat_sessions
            ELSE delete_session_doc(chat_sessions, in_flight.removal.session_id)
    /\ in_flight' = [in_flight EXCEPT !.removal.step = "done"]
    /\ UNCHANGED <<chat_messages, beside>>

\* the session s1 of alice, Active, empty and possibly older than the
\* retention period, the turns on it and its removal
RemovalInit ==
    \E old \in BOOLEAN :
        SiteInit([sid \in {SessionId} |-> [NewSession("alice") EXCEPT !.old = old]],
                 <<>>, 1, "one", RequestsInFlight)

RemovalNext ==
    \/ InsertMessage
    \/ GetSessionDoc
    \/ SaveSessionDoc
    \/ BeginRemoval
    \/ DeleteMessages
    \/ DeleteSessionDoc

RemovalSpec == RemovalInit /\ [][RemovalNext]_vars

\* --------------------------------------------------- chart_data_builder.py
DEFAULT_COLORS ==
    <<"#2491eb", "#5e64ff", "#00c3b3", "#28c76f", "#ff6b6b", "#f9c846", "#743ee2",
      "#ea5455", "#a5a5a5", "#1a1a2e">>

MAX_DATA_POINTS == 50

MIN_DATA_POINTS == 2

\* The cells of a row are strings that stand for Python values: "10" for the
\* number 10, "x" for the string 'x', None for None.  The numbers of a chart
\* are integers, and the percentages of a pie chart are counted in hundredths
\* of a percent (2500 for 25.0).
NumberOf == [v \in {"0", "10", "30"} |-> IF v = "0" THEN 0 ELSE IF v = "10" THEN 10 ELSE 30]

\* float(value) raises ValueError or TypeError
FloatRaises(value) == value \notin DOMAIN NumberOf

\* float(value)
float(value) == NumberOf[value]

\* dict.get(k, default)
GetOr(d, k, default) == IF k \in DOMAIN d THEN d[k] ELSE default

\* str.title() of the field names
title(field) == IF field = "cat" THEN "Cat" ELSE IF field = "val" THEN "Val" ELSE field

\* seq[:n] for n >= 0
Take(seq, n) == SubSeq(seq, 1, IF n < Len(seq) THEN n ELSE Len(seq))

\* the order of Python's string comparison on the labels of the charts
LabelRank(label) ==
    CASE label = "A" -> 1 [] label = "B" -> 2 [] label = "None" -> 3
      [] label = "Other" -> 4 [] label = "Unknown" -> 5

\* the key sorted() compares the (label, value) items by
SortKey(item, sort_by) ==
    IF sort_by = "value" THEN item.value ELSE LabelRank(item.label)

\* sorted(items, key=..., reverse=reverse): a stable sort, also when reversed
RECURSIVE sorted(_, _, _)
sorted(items, sort_by, reverse) ==
    IF items = <<>> THEN <<>>
    ELSE LET rest == sorted(SubSeq(items, 1, Len(items) - 1), sort_by, reverse)
             x    == items[Len(items)]
             n    == Cardinality({i \in DOMAIN rest :
                        IF reverse
                        THEN SortKey(rest[i], sort_by) >= SortKey(x, sort_by)
                        ELSE SortKey(rest[i], sort_by) <= SortKey(x, sort_by)})
         IN  SubSeq(rest, 1, n) \o <<x>> \o SubSeq(rest, n + 1, Len(rest))

\* [item[field] for item in items]
Column(items, field) == [i \in DOMAIN items |-> items[i][field]]

\* ChartDataBuilder._extract_data, from the rows left of the loop and the
\* pairs extracted so far
RECURSIVE ExtractLoop(_, _, _, _, _)
ExtractLoop(data, labels_field, values_field, limit, extracted) ==
    IF data = <<>> THEN extracted
    ELSE LET label == Get(Head(data), labels_field)
             value == Get(Head(data), values_field)
         IN  IF label = None \/ value = None \/ FloatRaises(value)
             THEN ExtractLoop(Tail(data), labels_field, values_field, limit, extracted)
             ELSE LET appended == Append(extracted, [label |-> label,
                                                  value |-> float(value)])
                  IN  IF Len(appended) >= limit THEN appended
                      ELSE ExtractLoop(Tail(data), labels_field, values_field,
                                       limit, appended)

_extract_data(data, labels_field, values_field, limit) ==
    ExtractLoop(data, labels_field, values_field, limit, <<>>)

\* ChartDataBuilder.build_chart_data, with no title, axis labels or colors given
build_chart_data(data, labels_field, values_field, chart_type, limit) ==
    IF Len(data) < MIN_DATA_POINTS THEN NoChart
    ELSE LET extracted_data == _extract_data(data, labels_field, values_field, limit)
         IN  IF Len(extracted_data) < MIN_DATA_POINTS THEN NoChart
             ELSE [chart_type |-> chart_type,
                   title |-> <<title(values_field), " by ", title(labels_field)>>,
                   labels |-> Column(extracted_data, "label"),
                   values |-> Column(extracted_data, "value"),
                   x_axis_label |-> None,
                   y_axis_label |-> None,
                   colors |-> Take(DEFAULT_COLORS, Len(extracted_data))]

\* aggregated[label] += value, on the items of the defaultdict in the order
\* their keys were inserted
AddTo(aggregated, label, value) ==
    IF \E i \in DOMAIN aggregated : aggregated[i].label = label
    THEN [i \in DOMAIN aggregated |->
            IF aggregated[i].label = label
            THEN [aggregated[i] EXCEPT !.value = @ + value] ELSE aggregated[i]]
    ELSE Append(aggregated, [label |-> label, value |-> value])

\* the aggregation loop of aggregate_for_bar_chart and calculate_distribution,
\* which differ in the label of a row that has none
RECURSIVE Aggregate(_, _, _, _, _)
Aggregate(data, label_field, value_field, default_label, aggregated) ==
    IF data = <<>> THEN aggregated
    ELSE LET label == GetOr(Head(data), label_field, default_label)
             value == GetOr(Head(data), value_field, "0")
         IN  Aggregate(Tail(data), label_field, value_field, default_label,
                       IF FloatRaises(value) THEN aggregated
                       ELSE AddTo(aggregated, label, float(value)))

\* ChartDataBuilder.aggregate_for_bar_chart
aggregate_for_bar_chart(data, label_field, value_field, sort_by, ascending, limit) ==
    LET aggregated   == Aggregate(data, label_field, value_field, "Unknown", <<>>)
        sorted_items == Take(sorted(aggregated, sort_by, ~ascending), limit)
    IN  IF Len(sorted_items) < MIN_DATA_POINTS THEN NoChart
        ELSE [chart_type |-> "bar",
              title |-> <<title(value_field), " by ", title(label_field)>>,
              labels |-> Column(sorted_items, "label"),
              values |-> Column(sorted_items, "value"),
              x_axis_label |-> title(label_field),
              y_axis_label |-> title(value_field),
              colors |-> Take(DEFAULT_COLORS, Len(sorted_items))]

\* the loop of aggregate_for_line_chart over the rows
RECURSIVE TimeSeries(_, _, _)
TimeSeries(data, time_field, value_field) ==
    IF data = <<>> THEN <<>>
    ELSE LET time_val == Get(Head(data), time_field)
             value    == Get(Head(data), value_field)
             rest     == TimeSeries(Tail(data), time_field, value_field)
         IN  IF time_val # None /\ value # None /\ ~FloatRaises(value)
             THEN <<[time |-> time_val, value |-> float(value)]>> \o rest
             ELSE rest

\* ChartDataBuilder.aggregate_for_line_chart
aggregate_for_line_chart(data, time_field, value_field, limit) ==
    LET all_data    == TimeSeries(data, time_field, value_field)
        sorted_data == Take(all_data, limit)
    IN  IF Len(all_data) < MIN_DATA_POINTS THEN NoChart
        ELSE [chart_type |-> "line",
              title |-> <<title(value_field), " Over Time">>,
              labels |-> Column(sorted_data, "time"),
              values |-> Column(sorted_data, "value"),
              x_axis_label |-> title(time_field),
              y_axis_label |-> title(value_field),
              colors |-> <<DEFAULT_COLORS[1]>>]

\* sum(aggregated.values())
RECURSIVE Sum(_)
Sum(values) == IF values = <<>> THEN 0 ELSE Head(values) + Sum(Tail(values))

\* round((val / total) * 100, 2) in hundredths of a percent, for val >= 0 and
\* total > 0: the nearest hundredth, the even one of two equally near
Percentage(val, total) ==
    LET q == (val * 10000) \div total
        r == (val * 10000) % total
    IN  IF 2 * r > total \/ (2 * r = total /\ q % 2 = 1) THEN q + 1 ELSE q

\* a variant of calculate_distribution that keeps the categories in the order
\* of the rows
calculate_distribution_unsorted(data, category_field, value_field, limit) ==
    LET aggregated   == Aggregate(data, category_field, value_field, "Other", <<>>)
        total        == Sum(Column(aggregated, "value"))
        sorted_items == Take(aggregated, limit)
        percentages  == [i \in DOMAIN sorted_items |->
                            Percentage(sorted_items[i].value, total)]
    IN  IF total = 0 \/ Len(sorted_items) < MIN_DATA_POINTS THEN NoChart
        ELSE [chart_type |-> "pie",
              title |-> <<title(value_field), " Distribution by ", category_field>>,
              labels |-> Column(sorted_items, "label"),
              values |-> percentages,
              colors |-> Take(DEFAULT_COLORS, Len(sorted_items)),
              description |-> <<"Total: ", total>>]

\* ChartDataBuilder.calculate_distribution
calculate_distribution(data, category_field, value_field, limit) ==
    LET aggregated   == Aggregate(data, category_field, value_field, "Other", <<>>)
        total        == Sum(Column(aggregated, "value"))
        sorted_items == Take(sorted(aggregated, "value", TRUE), limit)
        percentages  == [i \in DOMAIN sorted_items |->
                            Percentage(sorted_items[i].value, total)]
    IN  IF total = 0 \/ Len(sorted_items) < MIN_DATA_POINTS THEN NoChart
        ELSE [chart_type |-> "pie",
              title |-> <<title(value_field), " Distribution by ", category_field>>,
              labels |-> Column(sorted_items, "label"),
              values |-> percentages,
              colors |-> Take(DEFAULT_COLORS, Len(sorted_items)),
              description |-> <<"Total: ", total>>]

\* ------------------------------------------- the calls of the chart builder
\* the most rows a call is given
MaxRows == 3

\* the rows: with a category and a value cell, a number or the string 'x' or
\* None, or without the value key, or without the category key, or with the
\* category None
Rows ==
    {[cat |-> c, val |-> v] : c \in {"A", "B"}, v \in {"10", "30", "x", None}}
    \cup {[cat |-> c] : c \in {"A", "B"}}
    \cup {[val |-> "30"], [cat |-> None, val |-> "10"]}

RowLists == UNION {[1..n -> Rows] : n \in 0..MaxRows}

\* the point limits: none, one that cuts, and the default
Limits == {1, 2, MAX_DATA_POINTS}

\* what a call of the chart builder leaves alone; the runs below make one
\* call each
site == <<pc, user, store, locals, result, error_message, raised, audit_faults,
          dispatched, session_id, user_message, tool_call_lists, faults, answers,
          in_flight, api>>

BuildChartData ==
    /\ builder_call = NoCall
    /\ \E data \in RowLists, limit \in Limits :
         /\ builder_call' = [method |-> "build_chart_data", data |-> data,
                             limit |-> limit]
         /\ builder_result' = build_chart_data(data, "cat", "val", "bar", limit)
    /\ UNCHANGED site

AggregateForBarChart ==
    /\ builder_call = NoCall
    /\ \E data \in RowLists, limit \in Limits, sort_by \in {"value", "label"}, ascending \in BOOLEAN :
         /\ builder_call' = [method |-> "aggregate_for_bar_chart", data |-> data,
                             limit |-> limit, sort_by |-> sort_by,
                             ascending |-> ascending]
         /\ builder_result' = aggregate_for_bar_chart(data, "cat", "val", sort_by,
                                                      ascending, limit)
    /\ UNCHANGED site

AggregateForLineChart ==
    /\ builder_call = NoCall
    /\ \E data \in RowLists, limit \in Limits :
         /\ builder_call' = [method |-> "aggregate_for_line_chart", data |-> data,
                             limit |-> limit]
         /\ builder_result' = aggregate_for_line_chart(data, "cat", "val", limit)
    /\ UNCHANGED site

CalculateDistribution ==
    /\ builder_call = NoCall
    /\ \E data \in RowLists, limit \in Limits :
         /\ builder_call' = [method |-> "calculate_distribution", data |-> data,
                             limit |-> limit]
         /\ builder_result' = calculate_distribution(data, "cat", "val", limit)
    /\ UNCHANGED site

BuilderNext ==
    \/ BuildChartData
    \/ AggregateForBarChart
    \/ AggregateForLineChart
    \/ CalculateDistribution

BuilderSpec == ApiInit /\ [][BuilderNext]_vars

\* ------------------------------------------------- vocabulary of the claims
Returned == pc = "done" /\ raised = None

Failed == Returned /\ ~result.success

Succeeded == Returned /\ result.success

\* the resource type a tool declares read permission on: the doctype of its
\* with_permission_check, or for execute_report the ref_doctype of the report
DeclaredDoctype(d) ==
    CASE d.name = "get_revenue" -> "Sales Invoice"
      [] d.name \in {"get_financial_report", "get_expenses", "get_profit_and_loss",
                     "get_balance_sheet"} -> "GL Entry"
      [] d.name = "execute_report" /\ "report_name" \in DOMAIN d.arguments
         /\ ReportExists(d.arguments["report_name"])
            -> ReportRefDoctype[d.arguments["report_name"]]
      [] OTHER -> None

\* the dispatched call is made for a subject that is not Administrator and
\* lacks read permission on the tool's resource type
LacksPermission(d) ==
    /\ d.user # "Administrator"
    /\ DeclaredDoctype(d) # None
    /\ ~has_permission(DeclaredDoctype(d), d.user)

\* the dispatched call names a company the subject has no access to, and the
\* subject passes the permission check of the tool
LacksCompanyAccess(d) ==
    /\ d.user # "Administrator"
    /\ DeclaredDoctype(d) # None
    /\ has_permission(DeclaredDoctype(d), d.user)
    /\ Truthy(Get(d.arguments, "company"))
    /\ ~company_access_granted(d.arguments["company"], d.user)

Kinds(d) == {d.events[i][1] : i \in DOMAIN d.events}

\* the audit record of the turn has received its finalize-update
Finalized == chat_audit_logs # <<>> /\ chat_audit_logs[1].updates > 0

\* -------------------------------------------------------------------- C1
\* C1 (as claimed): every call of process_message, on every path, has created
\* exactly one Chat Audit Log record and applied exactly one finalize-update
\* to it when it returns.
C1_ExactlyOneRecordAndFinalize ==
    pc = "done" => Len(chat_audit_logs) = 1 /\ chat_audit_logs[1].updates = 1

\* C1 (amended): a call of process_message creates at most one Chat Audit Log
\* record and applies at most one finalize-update to it, and none before it
\* returns; it is exactly one record unless the audit store refused the insert
\* (then there is no record and no finalize), and exactly one finalize-update
\* of that record unless the store refused the write, on the success path and
\* on every failure path.
C1_OneRecordOneFinalizeUnlessStoreFails ==
    /\ Len(chat_audit_logs) <= 1
    /\ \A i \in DOMAIN chat_audit_logs : chat_audit_logs[i].updates <= 1
    /\ pc \notin {"idle", "done"} =>
          /\ Len(chat_audit_logs) = (IF "insert" \in audit_faults THEN 0 ELSE 1)
          /\ ~Finalized
    /\ pc = "done" =>
          /\ Len(chat_audit_logs) = (IF "insert" \in audit_faults THEN 0 ELSE 1)
          /\ "insert" \notin audit_faults =>
                chat_audit_logs[1].updates = (IF "update" \in audit_faults THEN 0 ELSE 1)
          /\ Finalized => chat_audit_logs[1].error_occurred = ~result.success

\* a failed turn (here after a tool round) whose record got its one finalize
C1_Witness ==
    /\ Failed /\ Len(dispatched) > 0
    /\ Len(chat_audit_logs) = 1 /\ chat_audit_logs[1].updates = 1

\* -------------------------------------------------------------------- C2
\* C2 (as claimed): every invocation of a registered tool dispatched by
\* execute_tool with the session and audit identifiers present has produced
\* exactly one AI Tool Call Log record (the store accepting the insert), with a
\* result_status among success, error, permission_denied.
C2_OneToolCallRecordPerInvocation ==
    \A k \in DOMAIN dispatched :
        LET d == dispatched[k]
        IN  (d.name \in ALL_TOOL_FUNCTIONS /\ Truthy(d.audit_log_id) /\ d.log_insert_ok)
            => /\ Len(d.logs) = 1
               /\ d.logs[1].result_status \in {"success", "error", "permission_denied"}

\* -------------------------------------------------------------------- C3
\* C3 (as claimed): for a subject that is not Administrator and lacks read
\* permission on the tool's resource type, the dispatched call never enters
\* the tool body and makes no database query and no report run.
C3_NoBodyNoQueryWithoutPermission ==
    \A k \in DOMAIN dispatched :
        LacksPermission(dispatched[k]) =>
            Kinds(dispatched[k]) \cap {"body", "meta", "data", "run"} = {}

\* -------------------------------------------------------------------- C4
\* C4 (as claimed): when a dispatched call is rejected for lack of permission,
\* execute_tool returns permission_denied, the result is the tool output of
\* that call in the second model call, the remaining calls are dispatched,
\* the finalized audit record has permission_checks_passed = FALSE, and the
\* turn returns success when the second model call succeeds (and the session
\* still takes messages).
C4_DenialRecordedAndTurnSucceeds ==
    \A k \in DOMAIN dispatched :
        LacksPermission(dispatched[k]) =>
            /\ dispatched[k].status = "permission_denied"
            /\ Len(model_requests) = 2 =>
                  \E m \in DOMAIN model_requests[2].messages :
                      model_requests[2].messages[m] =
                          [tool_call_id |-> k, role |-> "tool",
                           content |-> dispatched[k].result]
            /\ (pc = "done" /\ \A i \in DOMAIN tool_calls : JsonValid(tool_calls[i].arguments))
                  => Len(dispatched) = Len(tool_calls)
            /\ (pc = "done" /\ Finalized) =>
                  chat_audit_logs[1].permission_checks_passed = FALSE
            /\ (pc = "done" /\ response_text # NoText
                /\ chat_sessions[SessionId].status = "Active") => result.success

\* -------------------------------------------------------------------- C5
\* C5 (as claimed): a call that carries a company the subject (not
\* Administrator) has no access to is rejected with status permission_denied,
\* not error, and the turn's finalized audit record has
\* permission_checks_passed = FALSE.
C5_CompanyRejectionIsPermissionDenied ==
    \A k \in DOMAIN dispatched :
        LacksCompanyAccess(dispatched[k]) =>
            /\ dispatched[k].status = "permission_denied"
            /\ (pc = "done" /\ Finalized) =>
                  chat_audit_logs[1].permission_checks_passed = FALSE

\* -------------------------------------------------------------------- C6
\* C6 (as claimed): dispatching a name that is not in the registry returns
\* status error with a result that names the tool, raises nothing, and has
\* produced one AI Tool Call Log record when the session and audit identifiers
\* are present.
C6_UnknownToolIsLogged ==
    \A k \in DOMAIN dispatched :
        LET d == dispatched[k]
        IN  d.name \notin ALL_TOOL_FUNCTIONS =>
                /\ d.status = "error"
                /\ Contains(d.result, d.name)
                /\ raised = None
                /\ Truthy(d.audit_log_id) => Len(d.logs) = 1

\* -------------------------------------------------------------------- C7
\* the tool function of the dispatched call raised an exception that is not a
\* permission rejection
RaisedOther(d) == d.tool_exc \notin {None, "PermissionDeniedError", "PermissionError"}

AllArgumentsParse == \A i \in DOMAIN tool_calls : JsonValid(tool_calls[i].arguments)

\* C7: a dispatched call whose tool function raises an exception other than a
\* permission rejection has status error and the exception text in its result;
\* the turn goes on: the result is the tool output of that call, the turn's
\* failure (if any) is not that exception, every remaining call of the round
\* is dispatched, the second model call is issued with the tool output, and
\* the turn returns success when the answer arrives and is stored.
C7_ToolErrorDoesNotAbortTurn ==
    \A k \in DOMAIN dispatched :
        LET d == dispatched[k]
        IN  RaisedOther(d) =>
              /\ d.status = "error"
              /\ \A i \in DOMAIN d.tool_text : Contains(d.result, d.tool_text[i])
              /\ Len(tool_results) >= k
              /\ tool_results[k] = [tool_call_id |-> k, role |-> "tool",
                                    content |-> d.result]
              /\ error_message # d.tool_text
              /\ (pc \notin {"tool_calls", "second_model_call"} /\ AllArgumentsParse) =>
                    /\ Len(dispatched) = Len(tool_calls)
                    /\ Len(model_requests) = 2
                    /\ ~model_requests[2].tools
                    /\ Contains(model_requests[2].messages, tool_results[k])
              /\ (pc = "done" /\ response_text # NoText
                  /\ chat_sessions[SessionId].status = "Active") => result.success

\* a turn that returned success after a round in which the first call raised
\* TypeError and a second call was still dispatched
C7_Witness ==
    /\ Succeeded
    /\ Len(dispatched) = 2
    /\ RaisedOther(dispatched[1])
    /\ result.tools_called = 2

\* -------------------------------------------------------------------- C8
\* C8 (as claimed): when the report executor raises inside
\* get_financial_report or execute_report, the status returned by
\* execute_tool is error and so is the result_status of the call's AI Tool
\* Call Log record.
C8_ReportRunErrorIsStatusError ==
    \A k \in DOMAIN dispatched :
        LET d == dispatched[k]
        IN  (d.name \in {"get_financial_report", "execute_report"}
             /\ "run" \in Kinds(d) /\ ~d.run_ok)
            => /\ d.status = "error"
               /\ \A i \in DOMAIN d.logs : d.logs[i].result_status = "error"

\* -------------------------------------------------------------------- C9
\* C9: no exception leaves process_message: whatever fails (the audit insert,
\* the context fetch or client set-up, a model call, the parse of a call's
\* arguments, a tool, the storing of a message, the audit update), the call
\* ends by returning a result with a boolean success flag, and nothing is
\* returned before the end.
C9_NoExceptionCrossesBoundary ==
    /\ raised = None
    /\ pc = "done" => result.returned /\ result.success \in BOOLEAN
    /\ pc # "done" => ~result.returned

\* a turn that returned failure although the audit insert had failed, tools
\* were dispatched and the storing of the answer failed
C9_Witness ==
    /\ Failed
    /\ "insert" \in audit_faults
    /\ Len(dispatched) > 0
    /\ response_text # NoText

\* ------------------------------------------------------------------- C10
\* the fields of the returned result that hold text
ResultTexts ==
    {result[f] : f \in (DOMAIN result) \cap {"response", "error"}}

\* C10 (as claimed): the result of a failed turn holds the generic message
\* only: no part of the raw exception text is in any field of the result.
C10_NoRawExceptionTextInResult ==
    Failed => \A t \in ResultTexts :
                  \A i \in DOMAIN error_message : ~Contains(t, error_message[i])

\* ------------------------------------------------------------------- C11
\* C11 (as claimed): a call of process_message has added to its session, when
\* it returns, exactly two Chat Messages (the user message, then the
\* assistant answer) if it returns success, and no message at all if it
\* returns failure: no lone user message is left behind.
C11_TwoMessagesOrNone ==
    Returned =>
        LET added == SelectSeq(chat_messages, LAMBDA m : m.session_id = SessionId)
        IN  IF result.success
            THEN /\ Len(added) = 2
                 /\ added[1].role = "user" /\ added[1].content = UserMessage
                 /\ added[2].role = "assistant" /\ added[2].content = response_text
            ELSE added = <<>>

\* ------------------------------------------------------------------- C18
\* the turn is past its tool round
PastToolRound == pc \in {"store_user", "store_assistant", "finalize"} \/ Succeeded

MaxFinalizes == 2

\* the arguments of the finalize-update the returned turn made
TurnFinalize ==
    IF result.success
    THEN SuccessUpdate(response_text, data_accessed, permission_checks_passed,
                       tools_called)
    ELSE ErrorUpdate(error_message)

\* _update_audit_log called once more on the finalized record of the turn,
\* with the arguments of the turn's finalize-update
DuplicateFinalize ==
    /\ pc = "done"
    /\ Finalized
    /\ chat_audit_logs[1].updates < MaxFinalizes
    /\ chat_audit_logs' = _update_audit_log(chat_audit_logs, audit_log_id,
                                            TurnFinalize, TRUE)
    /\ UNCHANGED <<pc, user, chat_sessions, chat_messages, tool_call_logs, locals,
                   result, error_message, raised, audit_faults, dispatched>>
    /\ UNCHANGED <<call, api>>

RefinalizeNext == Next \/ DuplicateFinalize

RefinalizeSpec == Init /\ [][RefinalizeNext]_vars

\* the fields of a Chat Audit Log record
AuditFields(record) == [f \in (DOMAIN record) \ {"updates"} |-> record[f]]

\* C17: the finalize-update is idempotent: _update_audit_log applied a second
\* time to a finalized record, with the arguments of the first finalize,
\* leaves every field of the record (summary, data-accessed trail,
\* permission-passed flag, error flag and message, tool-call count, timing)
\* as the first finalize recorded it, and creates or removes no record.
C17_FinalizeIsIdempotent ==
    [][DuplicateFinalize =>
          /\ Len(chat_audit_logs') = Len(chat_audit_logs)
          /\ \A i \in DOMAIN chat_audit_logs :
                 AuditFields(chat_audit_logs'[i]) = AuditFields(chat_audit_logs[i])]_vars

\* a record finalized twice, of a successful turn with two tool calls, one of
\* them denied
C17_Witness ==
    /\ Succeeded
    /\ chat_audit_logs # <<>>
    /\ chat_audit_logs[1].updates = 2
    /\ chat_audit_logs[1].tools_called = 2
    /\ ~chat_audit_logs[1].permission_checks_passed

\* ------------------------------------------------------------------- C12
\* the session exists and its status is Active
SessionActive(sid) ==
    sid \in DOMAIN chat_sessions /\ chat_sessions[sid].status = "Active"

\* process_message is at one of its two calls of create_message
StoringMessage == pc \in {"store_user", "store_assistant"}

\* C12: a Chat Message is created if and only if its session is Active at
\* creation time.  Only a call of create_message adds a message, it adds one
\* message, of the session of the call, and that session is then Active; and
\* a call of create_message on an Active session stores the message, while on
\* a Closed, Expired or non-existent session it stores nothing and the turn
\* fails.
C12_MessageCreatedIffSessionActive ==
    [][ /\ Len(chat_messages') > Len(chat_messages) =>
              /\ StoringMessage
              /\ SessionActive(session_id)
              /\ Len(chat_messages') = Len(chat_messages) + 1
              /\ chat_messages'[Len(chat_messages')].session_id = session_id
              /\ SubSeq(chat_messages', 1, Len(chat_messages)) = chat_messages
        /\ (StoringMessage /\ pc' # pc) =>
              IF SessionActive(session_id)
              THEN Len(chat_messages') = Len(chat_messages) + 1 /\ pc' # "done"
              ELSE /\ chat_messages' = chat_messages
                   /\ pc' = "done"
                   /\ ~result'.success ]_vars

\* the content create_message is called with
StoredContent == IF pc = "store_user" THEN user_message ELSE response_text

\* C12 (amended): as above, with the cap on the content: a call of
\* create_message on an Active session stores the message when the content has
\* at most MaxContentLength characters, and stores nothing otherwise.
C12_MessageCreatedIffActiveAndWithinCap ==
    [][ /\ Len(chat_messages') > Len(chat_messages) =>
              /\ StoringMessage
              /\ SessionActive(session_id)
              /\ Len(chat_messages') = Len(chat_messages) + 1
              /\ chat_messages'[Len(chat_messages')].session_id = session_id
              /\ SubSeq(chat_messages', 1, Len(chat_messages)) = chat_messages
        /\ (StoringMessage /\ pc' # pc) =>
              IF /\ SessionActive(session_id)
                 /\ CharLength(StoredContent) <= MaxContentLength
              THEN Len(chat_messages') = Len(chat_messages) + 1 /\ pc' # "done"
              ELSE /\ chat_messages' = chat_messages
                   /\ pc' = "done"
                   /\ ~result'.success ]_vars

\* the user message was stored while the session was Active, the session was
\* closed, and the assistant message was rejected
C12_Witness ==
    /\ pc = "done"
    /\ ~result.success
    /\ session_id \in DOMAIN chat_sessions
    /\ chat_sessions[session_id].status = "Closed"
    /\ error_message = <<"Cannot add messages to a ", "closed", " session">>
    /\ Len(chat_messages) = 1
    /\ chat_messages[1].role = "user"

\* ------------------------------------------------------------------- C13
\* C13: once the status of a session is Expired it never becomes Active again,
\* for all sequences of create, message-ingest, close, expiry-sweep and save
\* operations: no session whose status was Expired is Active.
C13_ExpiredNeverActiveAgain ==
    \A sid \in DOMAIN chat_sessions :
        chat_sessions[sid].was_expired => chat_sessions[sid].status # "Active"

\* ------------------------------------------------------------------- C14
\* C14: the status transitions are monotone: no step takes a Closed session
\* to Active, and no step changes the status of an Expired session.
C14_ClosedNeverReopensExpiredIsTerminal ==
    [][ \A sid \in (DOMAIN chat_sessions) \cap (DOMAIN chat_sessions') :
          /\ chat_sessions[sid].status = "Closed" =>
                chat_sessions'[sid].status # "Active"
          /\ chat_sessions[sid].status = "Expired" =>
                chat_sessions'[sid].status = "Expired" ]_vars

\* ------------------------------------------------------------------- C15
\* the fields of a Chat Audit Log record that log_query sets
CreatedFields(record) ==
    <<record.name, record.session_id, record.user, record.query_text>>

\* C15: a Chat Audit Log record is never deleted, and a step changes it only
\* if it is the one finalize-update of the turn that created it (the record
\* was not updated before, it is the record of the turn in progress, and the
\* turn returns); the fields set at creation never change.  An AI Tool Call
\* Log record is never modified or deleted.
C15_AuditRecordsImmutableButOneFinalize ==
    [][ /\ Len(chat_audit_logs') >= Len(chat_audit_logs)
        /\ \A i \in DOMAIN chat_audit_logs :
              /\ CreatedFields(chat_audit_logs'[i]) = CreatedFields(chat_audit_logs[i])
              /\ chat_audit_logs'[i] # chat_audit_logs[i] =>
                    /\ chat_audit_logs[i].updates = 0
                    /\ chat_audit_logs'[i].updates = 1
                    /\ chat_audit_logs[i].name = audit_log_id
                    /\ pc # "done" /\ pc' = "done"
        /\ Len(tool_call_logs') >= Len(tool_call_logs)
        /\ SubSeq(tool_call_logs', 1, Len(tool_call_logs)) = tool_call_logs ]_vars

\* two turns were finalized, a tool call was logged, and the session of the
\* records was deleted afterwards
C15_Witness ==
    /\ pc = "api"
    /\ Len(chat_audit_logs) = 2
    /\ \A i \in DOMAIN chat_audit_logs : chat_audit_logs[i].updates = 1
    /\ tool_call_logs # <<>>
    /\ chat_audit_logs[1].session_id \notin DOMAIN chat_sessions

\* ------------------------------------------------------------------- C16
\* C16: a step that removes sessions (delete_session, delete_old_sessions)
\* removes with them all their Chat Messages and no other message, and leaves
\* the other sessions, every Chat Audit Log record and every AI Tool Call Log
\* record as they were.
C16_DeleteRemovesMessagesKeepsLogs ==
    [][ (DOMAIN chat_sessions) \ (DOMAIN chat_sessions') # {} =>
          LET gone == (DOMAIN chat_sessions) \ (DOMAIN chat_sessions')
          IN  /\ chat_messages' =
                    SelectSeq(chat_messages, LAMBDA m : m.session_id \notin gone)
              /\ \A sid \in DOMAIN chat_sessions' :
                    sid \in DOMAIN chat_sessions /\ chat_sessions'[sid] = chat_sessions[sid]
              /\ chat_audit_logs' = chat_audit_logs
              /\ tool_call_logs' = tool_call_logs ]_vars

\* a turn that stored its two messages and logged a tool call succeeded, and
\* its session was deleted: the messages are gone, the records are there
C16_Witness ==
    /\ sessions_created > 0
    /\ DOMAIN chat_sessions = {}
    /\ chat_messages = <<>>
    /\ \E i \in DOMAIN chat_audit_logs :
          /\ chat_audit_logs[i].updates = 1
          /\ ~chat_audit_logs[i].error_occurred
    /\ \E i \in DOMAIN tool_call_logs :
          tool_call_logs[i].session_id \notin DOMAIN chat_sessions

\* ------------------------------------------------------------------- C19
\* the request names no session, or a session that is not Active, or carries
\* more than MaxInputLength characters
BadRequest(sid, message) ==
    \/ sid \notin DOMAIN chat_sessions
    \/ chat_sessions[sid].status # "Active"
    \/ CharLength(message) > MaxInputLength

\* C19: send_message rejects a request with a bad session id, a session that
\* is not Active or an oversize input before it calls process_message: the
\* request returns a failure, no turn starts, and no Chat Audit Log record, no
\* Chat Message, no tool call record and no model call is made.
C19_BadRequestRejectedBeforeTurn ==
    [][ ( /\ pc = "api"
          /\ api_result' # api_result
          /\ BadRequest(api_result'.session_id, api_result'.message) ) =>
            /\ api_result'.returned
            /\ ~api_result'.success
            /\ api_result'.stage \in {"rate_limit", "session", "input"}
            /\ api_result'.error # NoText
            /\ pc' = "api"
            /\ UNCHANGED <<chat_audit_logs, chat_messages, tool_call_logs,
                           model_requests, chat_sessions, turns>> ]_vars

\* after a turn, the session was closed and a request for it was rejected; the
\* records are those of the turn
C19_Witness ==
    /\ pc = "api"
    /\ api_result.returned
    /\ api_result.stage = "session"
    /\ api_result.session_id \in DOMAIN chat_sessions
    /\ chat_sessions[api_result.session_id].status = "Closed"
    /\ api_result.error = <<"This chat session is ", "closed", " and cannot be used">>
    /\ Len(chat_audit_logs) = 1
    /\ Len(chat_messages) = 2

\* ------------------------------------------------------------------- C20
\* the calls of a user that the cache holds inside the current window
CallsInWindow(u) == SelectSeq(rate_limit_cache[u], LAMBDA ts : now - ts < RateWindow)

\* the user is not the Administrator and has RateLimit calls in the window
LimitReached(u) == u # "Administrator" /\ Len(CallsInWindow(u)) >= RateLimit

\* C20: when a non-Administrator user already has RateLimit accepted calls
\* inside the window, the next call is rejected by check_rate_limit with a
\* retry-after of at most RateWindow seconds, and send_message creates no Chat
\* Message and no Chat Audit Log record (no turn starts, the cache keeps its
\* content); no other call is rejected for the rate.
C20_CallOverLimitRejected ==
    [][ (pc = "api" /\ api_result' # api_result) =>
          IF LimitReached(api_result'.user)
          THEN /\ api_result'.returned
               /\ ~api_result'.success
               /\ api_result'.stage = "rate_limit"
               /\ api_result'.retry_after \in 0..RateWindow
               /\ pc' = "api"
               /\ UNCHANGED <<chat_messages, chat_audit_logs, tool_call_logs,
                              model_requests, rate_limit_cache, turns>>
          ELSE api_result'.stage # "rate_limit" ]_vars

\* the 21st call of a user, TickSeconds after the first, is rejected; one of
\* the calls before was a turn that stored its messages
C20_Witness ==
    /\ pc = "api"
    /\ api_result.returned
    /\ api_result.stage = "rate_limit"
    /\ api_result.retry_after = RateWindow - TickSeconds
    /\ Len(rate_limit_cache[api_result.user]) = RateLimit
    /\ Len(chat_messages) = 2
    /\ Len(chat_audit_logs) = 1

\* ------------------------------------------------------------------- C21
\* the calls of a subject that check_rate_limit let pass in the RateWindow
\* seconds that end now
AcceptedInWindow(u) ==
    SelectSeq(accepted_calls[u], LAMBDA ts : now - ts < RateWindow)

\* C21: the rate limiter is a sliding window per subject, checked before the
\* orchestrator runs: at every moment a subject other than the Administrator
\* has at most RateLimit accepted calls in the RateWindow seconds that end at
\* that moment, whatever requests were made and however the clock advanced,
\* and send_message calls process_message only for a call that check_rate_limit
\* let pass at that moment.
C21_SlidingWindowBeforeTurn ==
    /\ [](\A u \in Users \ {"Administrator"} :
            Len(AcceptedInWindow(u)) <= RateLimit)
    /\ [][ (pc = "api" /\ pc' = "idle") =>
             /\ api_result'.stage # "rate_limit"
             /\ \/ user' = "Administrator"
                \/ /\ accepted_calls'[user'] # accepted_calls[user']
                   /\ accepted_calls'[user'][Len(accepted_calls'[user'])] = now
                   /\ Len(AcceptedInWindow(user')) < RateLimit ]_vars

\* RateWindow seconds after the start a subject made RateLimit calls that
\* passed and one more that was rejected; one call of the run was a turn
C21_Witness ==
    /\ \E u \in Users \ {"Administrator"} :
         /\ Len(accepted_calls[u]) = RateLimit
         /\ \A i \in DOMAIN accepted_calls[u] : accepted_calls[u][i] = now
         /\ api_result.returned
         /\ api_result.user = u
         /\ api_result.stage = "rate_limit"
    /\ now = RateWindow
    /\ Len(chat_audit_logs) = 1

\* ------------------------------------------------------------------- C22
\* a chart builder method was called and returned
BuilderCalled == builder_call.method # None

\* the rows that carry both a label and a numeric value
ValidRows(data) ==
    SelectSeq(data, LAMBDA row : /\ "cat" \in DOMAIN row
                                 /\ row.cat # None
                                 /\ "val" \in DOMAIN row
                                 /\ ~FloatRaises(row.val))

\* C22: every chart builder method (build_chart_data, aggregate_for_bar_chart,
\* aggregate_for_line_chart, calculate_distribution) returns no chart when
\* fewer than 2 of the rows carry both a label and a numeric value.
C22_FewValidRowsNoChart ==
    (BuilderCalled /\ Len(ValidRows(builder_call.data)) < MIN_DATA_POINTS)
        => builder_result = NoChart

\* ------------------------------------------------------------------- C23
PieCalled == builder_call.method = "calculate_distribution"

\* the rows of the example: [{cat: A, val: 10}, {cat: B, val: 30}]
PieExample == <<[cat |-> "A", val |-> "10"], [cat |-> "B", val |-> "30"]>>

\* the rows calculate_distribution counts, their category and their amount: a
\* row without the category key counts for 'Other', one without the value key
\* counts 0, one with a value that is no number is left out
Counted(row) == "val" \notin DOMAIN row \/ ~FloatRaises(row.val)

CategoryOf(row) == IF "cat" \in DOMAIN row THEN row.cat ELSE "Other"

Amount(row) == IF "val" \in DOMAIN row THEN float(row.val) ELSE 0

Categories(data) == {CategoryOf(data[i]) : i \in {j \in DOMAIN data : Counted(data[j])}}

CategoryTotal(data, c) ==
    Sum([i \in DOMAIN data |->
            IF Counted(data[i]) /\ CategoryOf(data[i]) = c THEN Amount(data[i])
            ELSE 0])

GrandTotal(data) ==
    Sum([i \in DOMAIN data |-> IF Counted(data[i]) THEN Amount(data[i]) ELSE 0])

\* v is the share of part in total as a percentage rounded to 2 decimals, in
\* hundredths of a percent
IsShare(v, part, total) ==
    LET diff == v * total - part * 10000
    IN  2 * (IF diff < 0 THEN -diff ELSE diff) <= total

\* the shares sum to 100 up to the rounding of each
SumsTo100(values) ==
    LET diff == Sum(values) - 10000
    IN  2 * (IF diff < 0 THEN -diff ELSE diff) <= Len(values)

\* C23 as stated: a pie chart lists each category with the rounded share of
\* its sum in the total, the shares sum to 100 modulo rounding, and the rows
\* of the example yield the labels [A, B] and the percentages [25.0, 75.0].
C23_PieSharesInRowOrder ==
    (PieCalled /\ builder_result # NoChart) =>
        LET data == builder_call.data
            pie  == builder_result
        IN  /\ Len(pie.labels) = Len(pie.values)
            /\ \A i \in DOMAIN pie.labels :
                  IsShare(pie.values[i], CategoryTotal(data, pie.labels[i]),
                          GrandTotal(data))
            /\ SumsTo100(pie.values)
            /\ data = PieExample =>
                  pie.labels = <<"A", "B">> /\ pie.values = <<2500, 7500>>

\* C23, amended: a pie chart lists the categories by descending sum (the
\* first seen first among equal sums), the first `limit` of them, each with
\* the rounded share of its sum in the total of all categories; the shares
\* sum to 100 modulo rounding when the limit cut no category; the rows of the
\* example yield the labels [B, A] and the percentages [75.0, 25.0].
C23_PieSharesByDescendingSum ==
    (PieCalled /\ builder_result # NoChart) =>
        LET data == builder_call.data
            pie  == builder_result
            kept == {pie.labels[i] : i \in DOMAIN pie.labels}
        IN  /\ Len(pie.labels) = Len(pie.values)
            /\ kept \subseteq Categories(data)
            /\ Cardinality(kept) = Len(pie.labels)
            /\ Len(pie.labels) = IF Cardinality(Categories(data)) < builder_call.limit
                                 THEN Cardinality(Categories(data))
                                 ELSE builder_call.limit
            /\ \A i \in DOMAIN pie.labels :
                  /\ IsShare(pie.values[i], CategoryTotal(data, pie.labels[i]),
                             GrandTotal(data))
                  /\ \A j \in DOMAIN pie.labels : i < j =>
                        CategoryTotal(data, pie.labels[i])
                            >= CategoryTotal(data, pie.labels[j])
                  /\ \A c \in Categories(data) \ kept :
                        CategoryTotal(data, pie.labels[i]) >= CategoryTotal(data, c)
            /\ kept = Categories(data) => SumsTo100(pie.values)
            /\ data = PieExample =>
                  pie.labels = <<"B", "A">> /\ pie.values = <<7500, 2500>>

\* calculate_distribution returned the pie chart of the example
C23_Witness ==
    /\ PieCalled
    /\ builder_call.data = PieExample
    /\ builder_call.limit = MAX_DATA_POINTS
    /\ builder_result # NoChart
    /\ builder_result.chart_type = "pie"
    /\ builder_result.labels = <<"B", "A">>
    /\ builder_result.values = <<7500, 2500>>

\* ------------------------------------------------------------------- C24
\* C24: every descriptor a chart builder method returns has as many labels
\* as values, at least 2 and at most the point limit of the call.
C24_DescriptorWithinBounds ==
    (BuilderCalled /\ builder_result # NoChart) =>
        /\ Len(builder_result.labels) = Len(builder_result.values)
        /\ Len(builder_result.labels) >= MIN_DATA_POINTS
        /\ Len(builder_result.labels) <= builder_call.limit

\* ------------------------------------------------------------------- C25
\* the answer holds the block {CHART_DATA}<object>{/CHART_DATA} at position i,
\* its object a chart of type line with labels and values, and holds no other
\* marker
OneBlockAt(text, i) ==
    /\ i + 2 <= Len(text)
    /\ text[i] = ChartOpen
    /\ text[i + 1] = LineChartJson
    /\ text[i + 2] = ChartClose
    /\ \A j \in DOMAIN text \ {i, i + 2} : text[j] \notin {ChartOpen, ChartClose}

\* the answer holds an opening marker and no closing marker after one
Unclosed(text) ==
    /\ \E i \in DOMAIN text : text[i] = ChartOpen
    /\ \A i, j \in DOMAIN text :
          (i < j /\ text[i] = ChartOpen) => text[j] # ChartClose

\* the object of the block
LineChart ==
    [chart_type |-> "line", labels |-> <<"Jan", "Feb">>, values |-> <<10, 20>>]

\* the text without its leading whitespace, and without leading and trailing
\* whitespace
RECURSIVE LeftTrimmed(_)
LeftTrimmed(text) ==
    IF text # <<>> /\ Head(text) = " " THEN LeftTrimmed(Tail(text)) ELSE text

RECURSIVE Trimmed(_)
Trimmed(text) ==
    IF text # <<>> /\ text[Len(text)] = " "
    THEN Trimmed(SubSeq(text, 1, Len(text) - 1)) ELSE LeftTrimmed(text)

\* C25 as stated: of an answer with one chart block the turn returns the
\* object of the block as the chart and the answer without the block as the
\* text; of an answer whose block has no closing marker it returns no chart
\* and the answer unchanged.
C25_BlockRemovedOrTextUnchanged ==
    (pc = "done" /\ raised = None /\ result.success) =>
        /\ \A i \in DOMAIN response_text : OneBlockAt(response_text, i) =>
              /\ result.chart = LineChart
              /\ result.response = SubSeq(response_text, 1, i - 1)
                                     \o SubSeq(response_text, i + 3, Len(response_text))
        /\ Unclosed(response_text) =>
              /\ result.chart = NoChart
              /\ result.response = response_text

\* C25, amended: of an answer with one chart block the turn returns the object
\* of the block as the chart, and as the text the answer without the block and
\* the whitespace that follows it, trimmed of leading and trailing whitespace;
\* of an answer whose block has no closing marker it returns no chart and the
\* answer trimmed of leading and trailing whitespace, the markers left in.
C25_BlockRemovedAndTextTrimmed ==
    (pc = "done" /\ raised = None /\ result.success) =>
        /\ \A i \in DOMAIN response_text : OneBlockAt(response_text, i) =>
              /\ result.chart = LineChart
              /\ result.response =
                    Trimmed(SubSeq(response_text, 1, i - 1)
                            \o LeftTrimmed(SubSeq(response_text, i + 3,
                                                  Len(response_text))))
        /\ Unclosed(response_text) =>
              /\ result.chart = NoChart
              /\ result.response = Trimmed(response_text)

\* a turn returned the line chart of an answer that is whitespace and the
\* block, and the empty text
C25_Witness ==
    /\ pc = "done"
    /\ result.returned
    /\ result.success
    /\ response_text = <<" ", ChartOpen, LineChartJson, ChartClose>>
    /\ result.chart = LineChart
    /\ result.response = <<>>

\* ------------------------------------------------------------------- C26
\* some dispatched call of the turn was denied
AnyDenied == \E k \in DOMAIN dispatched : dispatched[k].status = "permission_denied"

\* C26 (as claimed): when process_message fails after k tool calls were
\* dispatched, the finalized audit record has the error flag and the error
\* message set, records tools_called = k (the value returned to the caller)
\* and the data-accessed trail of those k calls, and has
\* permission_checks_passed false if one of them was denied.
C26_FailureKeepsAuditFidelity ==
    (Failed /\ Finalized) =>
        LET log == chat_audit_logs[1]
        IN  /\ log.error_occurred
            /\ log.error_message = error_message
            /\ result.tools_called = Len(dispatched)
            /\ log.tools_called = result.tools_called
            /\ Len(log.data_accessed) = Len(dispatched)
            /\ \A k \in DOMAIN dispatched :
                   log.data_accessed[k].tool = dispatched[k].name
            /\ AnyDenied => ~log.permission_checks_passed

\* ------------------------------------------------------------------- C27
\* the audit record of the turn as log_query leaves it
Provisional(log) ==
    /\ log.permission_checks_passed
    /\ log.tools_called = 0
    /\ log.response_summary = NoText
    /\ ~log.error_occurred
    /\ log.updates = 0

\* what execute_tool returns for a dispatched call when the turn has an audit
\* record
WithAuditRecord(d) ==
    execute_tool(d.name, d.arguments, session_id, AuditNames[1], d.user,
                 [session_user |-> d.user, run_ok |-> d.run_ok,
                  log_insert_ok |-> d.log_insert_ok])

\* the result of the turn, told from the model's answer, the dispatched calls
\* and the error alone
ResultOfTurn ==
    IF result.success
    THEN [returned |-> TRUE,
          success |-> TRUE,
          response |-> _clean_chart_markers(response_text),
          chart |-> _parse_chart_from_response(response_text),
          processing_time_ms |-> "elapsed",
          tools_called |-> Len(dispatched),
          token_count |-> total_tokens]
    ELSE [returned |-> TRUE,
          success |-> FALSE,
          response |-> _get_user_friendly_error(error_message),
          processing_time_ms |-> "elapsed",
          tools_called |-> Len(dispatched),
          error |-> error_message]

\* C27: the audit record of the turn is created before the first model call
\* and stays in the provisional state (permission-passed true, tools_called 0,
\* no summary) until the turn ends.  When the creation fails the turn goes on
\* without a record: no exception is raised, the model is called unless the
\* set-up fails, every dispatched call returns what it returns with a record,
\* and the result is the one the answer, the calls and the error determine.
C27_AuditCreatedFirstAndNeverBlocks ==
    /\ raised = None
    /\ pc = "idle" => model_requests = <<>> /\ chat_audit_logs = <<>>
    /\ pc # "idle" =>
          /\ Len(chat_audit_logs) = (IF "insert" \in audit_faults THEN 0 ELSE 1)
          /\ audit_log_id = (IF "insert" \in audit_faults THEN None ELSE AuditNames[1])
    /\ (pc \notin {"idle", "done"} /\ chat_audit_logs # <<>>) =>
          Provisional(chat_audit_logs[1])
    /\ \A k \in DOMAIN dispatched :
          /\ dispatched[k].result = WithAuditRecord(dispatched[k]).result
          /\ dispatched[k].status = WithAuditRecord(dispatched[k]).status
    /\ pc = "done" =>
          /\ result = ResultOfTurn
          /\ model_requests # <<>>
             \/ (~result.success /\ error_message \in faults.setup_errors)

\* a turn without audit record (the insert failed) that returned success after
\* two dispatched tool calls
C27_Witness ==
    /\ Succeeded
    /\ "insert" \in audit_faults /\ chat_audit_logs = <<>>
    /\ Len(dispatched) = 2
    /\ Len(model_requests) = 2

\* ------------------------------------------------------------------- C28
\* the data-accessed trail of the calls the model requested, with the
\* arguments as the model supplied them
RequestedTrail ==
    json_dumps_trail([k \in DOMAIN tool_calls |->
                         [tool |-> tool_calls[k].name,
                          arguments |-> json_loads(tool_calls[k].arguments)]])

\* C28 (as claimed): the data-accessed trail written by the finalize-update
\* of a turn has exactly one entry per tool call the model requested, in the
\* order of the request, each with the tool name and the arguments the model
\* supplied for that call.
C28_TrailHoldsModelArguments ==
    (Succeeded /\ Finalized) => chat_audit_logs[1].data_accessed = RequestedTrail

\* ------------------------------------------------------------------- C29
\* what execute_tool returns for a dispatched call when the context values
\* the model supplied are taken out of the arguments
WithoutSuppliedContext(d) ==
    execute_tool(d.name, DropKeys(d.arguments, ContextKeys), session_id,
                 d.audit_log_id, d.user,
                 [session_user |-> d.user, run_ok |-> d.run_ok,
                  log_insert_ok |-> d.log_insert_ok])

\* the dispatched call was made with a subject named by the model
SuppliesUser(d) == Truthy(Get(d.arguments, "user")) /\ d.arguments["user"] # d.user

\* C29: execute_tool invokes a registered tool with user, session_id and
\* audit_log_id of the turn whatever the model put under those keys: the
\* arguments the tool received hold the turn's three values, the outcome of
\* the call (result, status, accesses made, records written) is the one of
\* the same call without the model's values, and every tool-call record
\* written names the turn's session and audit record.
C29_ContextOverridesModelArguments ==
    /\ \A k \in DOMAIN dispatched :
          LET d == dispatched[k]
              w == WithoutSuppliedContext(d)
          IN  /\ d.user = user /\ d.audit_log_id = audit_log_id
              /\ d.result = w.result /\ d.status = w.status
              /\ d.events = w.events /\ d.logs = w.logs
              /\ \A i \in DOMAIN d.logs :
                     /\ d.logs[i].session_id = session_id
                     /\ d.logs[i].audit_log_id = audit_log_id
    /\ \A k \in DOMAIN data_accessed :
          data_accessed[k].tool \in ALL_TOOL_FUNCTIONS =>
              /\ data_accessed[k].arguments["user"] = user
              /\ data_accessed[k].arguments["session_id"] = session_id
              /\ data_accessed[k].arguments["audit_log_id"] = audit_log_id

\* alice's turn dispatched get_expenses with user = Administrator, session_id
\* and audit_log_id supplied by the model, and the call wrote its record
C29_Witness ==
    /\ user = "alice"
    /\ \E k \in DOMAIN dispatched :
          /\ dispatched[k].name = "get_expenses"
          /\ SuppliesUser(dispatched[k])
          /\ Get(dispatched[k].arguments, "audit_log_id") = "CAL-2"
          /\ Len(dispatched[k].logs) = 1

\* ------------------------------------------------------------------- C30
\* the companies the accesses of kind data and run of a dispatched call are
\* restricted to (None: to no company)
QueriedCompanies(d) ==
    {d.events[i][3] : i \in {j \in DOMAIN d.events : d.events[j][1] \in {"data", "run"}}}

\* C30 (as claimed): for a subject other than Administrator whose company
\* allow-list is not empty, every data query made by get_revenue,
\* get_expenses and get_financial_report is restricted to a company of the
\* allow-list, also when the call names no company and the subject has no
\* default company.
C30_QueriesWithinAllowList ==
    \A k \in DOMAIN dispatched :
        LET d == dispatched[k]
        IN  (/\ d.name \in {"get_revenue", "get_expenses", "get_financial_report"}
             /\ d.user # "Administrator"
             /\ get_user_companies(d.user) # {})
            => QueriedCompanies(d) \subseteq get_user_companies(d.user)

\* ------------------------------------------------------------------- C31
\* the Chat Messages of the session of the turn, oldest first
MessagesOfSession == SelectSeq(chat_messages, LAMBDA m : m.session_id = session_id)

\* the positions in MessagesOfSession of the ContextLimit most recent ones
RecentPositions ==
    {i \in DOMAIN MessagesOfSession : i > Len(MessagesOfSession) - ContextLimit}

\* the message at position i of the session was left by a turn that failed: a
\* user message with no assistant answer after it
LeftByFailedTurn(i) ==
    /\ MessagesOfSession[i].role = "user"
    /\ i = Len(MessagesOfSession) \/ MessagesOfSession[i + 1].role # "assistant"

\* the first model call was issued and the turn stored no message yet
ContextSent ==
    pc \in {"tool_calls", "second_model_call", "store_user"} /\ model_requests # <<>>

\* C31 (as claimed): the messages of the first model call are the system
\* instruction, then the at most 20 most recent prior messages of the
\* session, oldest first, then the new user message once; no message of
\* another session and no message of a failed turn is among them.
C31_ContextOfFirstModelCall ==
    ContextSent =>
        LET sent   == model_requests[1].messages
            first  == Len(MessagesOfSession) - Cardinality(RecentPositions) + 1
            recent == SubSeq(MessagesOfSession, first, Len(MessagesOfSession))
        IN  /\ Len(sent) <= ContextLimit + 2
            /\ sent = <<[role |-> "system", content |-> SYSTEM_PROMPT]>>
                      \o [i \in DOMAIN recent |->
                            [role |-> recent[i].role, content |-> recent[i].content]]
                      \o <<[role |-> "user", content |-> user_message]>>
            /\ \A i \in RecentPositions : ~LeftByFailedTurn(i)

\* ------------------------------------------------------------------- C32
\* the step stores a Chat Message of the session
Ingests(sid) ==
    /\ Len(chat_messages') = Len(chat_messages) + 1
    /\ chat_messages'[Len(chat_messages')].session_id = sid

\* C32 (as claimed): the expiry sweep changes a session to Expired only if the
\* session is Active and its last activity is more than 24 hours back; every
\* stored message makes the session's last activity recent, so a session
\* with a message within the threshold is not expired; a Closed session is
\* left alone by the sweep.
C32_SweepExpiresOnlyInactiveActive ==
    [][\A sid \in (DOMAIN chat_sessions) \cap (DOMAIN chat_sessions') :
          /\ (chat_sessions[sid].status # "Expired"
              /\ chat_sessions'[sid].status = "Expired")
             => (chat_sessions[sid].status = "Active" /\ chat_sessions[sid].inactive)
          /\ Ingests(sid) => ~chat_sessions'[sid].inactive
          /\ chat_sessions[sid].status = "Closed"
             => chat_sessions'[sid].status = "Closed"]_vars

\* ------------------------------------------------------------------- C33
\* the Chat Messages of session s1 in the store
Persisted == SelectSeq(chat_messages, LAMBDA m : m.session_id = SessionId)

\* the message of turn t with the role given is in the store
Stored(t, role) ==
    \E i \in DOMAIN chat_messages :
        /\ chat_messages[i].session_id = SessionId
        /\ chat_messages[i].role = role
        /\ chat_messages[i].content = TurnContent(t, role)

\* turn t is in the save of after_insert
Saving(t) == in_flight.turn[t].step = "save"

\* C33: concurrent turns against one Active session are not kept apart: every
\* turn stores its two messages and returns success, and each update of the
\* session's message_count, total_tokens and last_activity writes the values
\* of the document its turn loaded, counted on by one message (last write
\* wins), so the count never exceeds the number of stored messages and can
\* stay below it.
C33_SessionStatsLastWriteWins ==
    /\ [](/\ \A t \in ConcurrentTurns :
               in_flight.turn[t].step = "done" =>
                   /\ in_flight.turn[t].success
                   /\ Stored(t, "user") /\ Stored(t, "assistant")
          /\ chat_sessions[SessionId].message_count <= Len(Persisted))
    /\ [][chat_sessions'[SessionId] # chat_sessions[SessionId] =>
            \E t \in ConcurrentTurns :
                /\ Saving(t)
                /\ chat_sessions'[SessionId] =
                      increment_message_count(in_flight.turn[t].doc,
                                              TurnTokens(in_flight.turn[t].role))]_vars

\* both turns returned success, their four messages are stored and the
\* session counts fewer than four
C33_Witness ==
    /\ \A t \in ConcurrentTurns : in_flight.turn[t].success
    /\ Len(Persisted) = 2 * MaxConcurrentTurns
    /\ chat_sessions[SessionId].message_count < Len(Persisted)

\* ------------------------------------------------------------------- C34
\* C34 (as claimed): in every reachable state every Chat Message names a Chat
\* Session that exists, also when the storing of a turn's messages
\* interleaves with delete_session or with the retention sweep.
C34_EveryMessageHasItsSession ==
    \A i \in DOMAIN chat_messages : chat_messages[i].session_id \in DOMAIN chat_sessions

\* ------------------------------------------------- the session endpoints
\* the limit of get_session_history when the request names none
DefaultHistoryLimit == 50

\* the most messages get_session_history returns
MaxHistoryLimit == 100

\* the limits the requests of the model ask for
HistoryLimits == {DefaultHistoryLimit, MaxHistoryLimit + 1}

\* the response of an endpoint whose try block raised
Refused(text, sessions, messages) ==
    [success |-> FALSE, error |-> text, sessions |-> sessions, messages |-> messages]

\* api.chat.close_session
api_close_session(sessions, messages, session_name, session_user) ==
    LET owned  == validate_session_ownership(sessions, session_name, session_user)
        closed == close_session_doc(sessions, session_name, session_user)
    IN  IF owned.exc # None THEN Refused(owned.text, sessions, messages)
        ELSE IF closed.exc # NoText THEN Refused(closed.exc, sessions, messages)
        ELSE [success |-> TRUE,
              message |-> [session_id |-> session_name, status |-> "Closed"],
              sessions |-> closed.sessions, messages |-> messages]

\* api.chat.delete_session without its call of validate_session_ownership
api_delete_session_unvalidated(sessions, messages, session_name, session_user) ==
    LET deleted == delete_session(sessions, messages, session_name, session_user)
    IN  IF deleted.exc # NoText THEN Refused(deleted.exc, sessions, messages)
        ELSE [success |-> TRUE,
              message |-> [deleted |-> TRUE, session_id |-> session_name],
              sessions |-> deleted.sessions, messages |-> deleted.messages]

\* api.chat.delete_session
api_delete_session(sessions, messages, session_name, session_user) ==
    LET owned   == validate_session_ownership(sessions, session_name, session_user)
        deleted == delete_session(sessions, messages, session_name, session_user)
    IN  IF owned.exc # None THEN Refused(owned.text, sessions, messages)
        ELSE IF deleted.exc # NoText THEN Refused(deleted.exc, sessions, messages)
        ELSE [success |-> TRUE,
              message |-> [deleted |-> TRUE, session_id |-> session_name],
              sessions |-> deleted.sessions, messages |-> deleted.messages]

\* ChatMessage.get_session_messages with offset 0: the session's messages in
\* the order of their timestamps, at most limit of them
get_session_messages(messages, session_name, limit) ==
    LET mine == SelectSeq(messages, LAMBDA m : m.session_id = session_name)
    IN  SubSeq(mine, 1, IF limit < Len(mine) THEN limit ELSE Len(mine))

\* api.chat.get_session_history
get_session_history(sessions, messages, session_name, session_user, limit) ==
    LET owned == validate_session_ownership(sessions, session_name, session_user)
        most  == IF limit < MaxHistoryLimit THEN limit ELSE MaxHistoryLimit
    IN  IF owned.exc # None THEN Refused(owned.text, sessions, messages)
        ELSE [success |-> TRUE,
              message |-> [session_id |-> session_name,
                           messages |-> get_session_messages(messages, session_name, most),
                           total_count |-> Len(SelectSeq(messages,
                                              LAMBDA m : m.session_id = session_name))],
              sessions |-> sessions, messages |-> messages]

\* what the endpoint hands back to the caller
Response(method, session_user, session_name, response) ==
    [job |-> "request", method |-> method, user |-> session_user,
     session_id |-> session_name, success |-> response.success,
     body |-> IF response.success THEN response.message
              ELSE [error |-> response.error]]

\* one request to an endpoint: the store after it and its response
Request(method, session_user, session_name, response) ==
    /\ chat_sessions' = response.sessions
    /\ chat_messages' = response.messages
    /\ in_flight' = Response(method, session_user, session_name, response)
    /\ UNCHANGED beside

CloseSessionRequest ==
    \E u \in Users, sid \in SessionIds :
        Request("close_session", u, sid,
                api_close_session(chat_sessions, chat_messages, sid, u))

DeleteSessionRequest ==
    \E u \in Users, sid \in SessionIds :
        Request("delete_session", u, sid,
                api_delete_session(chat_sessions, chat_messages, sid, u))

GetSessionHistoryRequest ==
    \E u \in Users, sid \in SessionIds, limit \in HistoryLimits :
        Request("get_session_history", u, sid,
                get_session_history(chat_sessions, chat_messages, sid, u, limit))

\* the endpoints of a session and the two scheduled sweeps
EndpointNext ==
    \/ CreateSession
    \/ SendMessage
    \/ CreateAuditLog
    \/ FirstModelCall
    \/ DispatchToolCall
    \/ SecondModelCall
    \/ StoreUserMessage
    \/ StoreAssistantMessage
    \/ FinalizeAndReturn
    \/ SendMessageReturn
    \/ CloseSessionRequest
    \/ DeleteSessionRequest
    \/ GetSessionHistoryRequest
    \/ ExpireInactiveSessions
    \/ DeleteOldSessions
    \/ DayPasses
    \/ RetentionPasses

EndpointSpec == ApiInit /\ [][EndpointNext]_vars

\* ------------------------------------------------------------------- C35
\* the step is a request of the three endpoints against session sid
Requests(sid) ==
    /\ in_flight' # in_flight
    /\ in_flight'.job = "request"
    /\ in_flight'.session_id = sid

\* C35: a close_session, delete_session or get_session_history request
\* against a session that is Closed or Expired is rejected with the error of
\* the Active-status check of validate_session_ownership (for its owner and
\* for Administrator) and leaves the sessions and the messages unchanged; a
\* session that is not Active leaves the store only in the retention sweep,
\* which removes every session older than the retention period.
C35_InactiveSessionsRejectEndpoints ==
    [][\A sid \in DOMAIN chat_sessions :
          chat_sessions[sid].status # "Active" =>
              /\ Requests(sid) =>
                    /\ ~in_flight'.success
                    /\ chat_sessions' = chat_sessions
                    /\ chat_messages' = chat_messages
                    /\ in_flight'.user \in {chat_sessions[sid].user, "Administrator"}
                       => in_flight'.body.error =
                             <<"This chat session is ", Lower(chat_sessions[sid].status),
                               " and cannot be used">>
              /\ sid \notin DOMAIN chat_sessions' =>
                    /\ chat_sessions[sid].old
                    /\ \A other \in DOMAIN chat_sessions' : ~chat_sessions[other].old]_vars

\* the owner's request to delete a Closed session that holds messages was
\* rejected and the session and its messages are in the store
C35_Witness ==
    /\ in_flight.job = "request"
    /\ in_flight.method = "delete_session"
    /\ ~in_flight.success
    /\ in_flight.session_id \in DOMAIN chat_sessions
    /\ chat_sessions[in_flight.session_id].status = "Closed"
    /\ chat_sessions[in_flight.session_id].user = in_flight.user
    /\ in_flight.user # "Administrator"
    /\ \E i \in DOMAIN chat_messages :
          chat_messages[i].session_id = in_flight.session_id

\* ---------------------------------------------- the rate limiter by itself
\* the subjects of the calls
Subjects == {"Administrator", "alice", "bob"}

\* the limit and the window the calls are made with, the calls of a run and
\* the last reading of the clock
LimiterLimit == 2

LimiterWindow == 3

MaxLimiterCalls == 4

MaxLimiterClock == 4

\* the variables the rate limiter leaves alone
outside == <<pc, user, store, locals, result, error_message, raised,
             audit_faults, dispatched, session_id, user_message, tool_call_lists,
             faults, answers, builder_call, builder_result, sessions_created,
             turns, api_result>>

\* get_remaining_requests without the filter of the window
get_remaining_requests_unfiltered(cache, session_user, limit, window, current_time) ==
    LET timestamps == cache[session_user]
    IN  [remaining |-> IF limit - Len(timestamps) > 0 THEN limit - Len(timestamps) ELSE 0,
         limit |-> limit,
         reset_in_seconds |-> IF timestamps # <<>>
                              THEN window - (current_time - timestamps[1]) ELSE 0,
         window_seconds |-> window]

\* rate_limiter.get_remaining_requests
get_remaining_requests(cache, session_user, limit, window, current_time) ==
    LET timestamps == SelectSeq(cache[session_user],
                                LAMBDA ts : current_time - ts < window)
        oldest_timestamp == CHOOSE ts \in {timestamps[i] : i \in DOMAIN timestamps} :
                               \A i \in DOMAIN timestamps : ts <= timestamps[i]
    IN  [remaining |-> IF limit - Len(timestamps) > 0 THEN limit - Len(timestamps) ELSE 0,
         limit |-> limit,
         reset_in_seconds |-> IF timestamps # <<>>
                              THEN window - (current_time - oldest_timestamp) ELSE 0,
         window_seconds |-> window]

\* no call was made yet
NoCheck == [n |-> 0, exceeded |-> FALSE, retry_after |-> 0, current_time |-> 0]

NoRemaining == [user |-> None, current_time |-> 0, remaining |-> 0]

\* per subject, what its last call of check_rate_limit returned, and what the
\* last call of get_remaining_requests returned
LimiterInFlight ==
    [job |-> "rate_limiter", calls |-> 0,
     checked |-> [u \in Subjects |-> NoCheck],
     remaining |-> NoRemaining]

LimiterInit ==
    SiteInitFor(Subjects, [sid \in {} |-> NewSession("Administrator")], <<>>, 0,
                "one", LimiterInFlight)

\* one call check_rate_limit(u, LimiterLimit, LimiterWindow)
CheckRateLimit ==
    /\ in_flight.calls < MaxLimiterCalls
    /\ \E u \in Subjects :
         LET checked == check_rate_limit(rate_limit_cache, u, LimiterLimit,
                                         LimiterWindow, now)
         IN  /\ rate_limit_cache' = checked.cache
             /\ accepted_calls' =
                   IF checked.exceeded THEN accepted_calls
                   ELSE [accepted_calls EXCEPT ![u] = Append(@, now)]
             /\ in_flight' =
                   [in_flight EXCEPT
                      !.calls = @ + 1,
                      !.checked[u] = [n |-> in_flight.calls + 1,
                                      exceeded |-> checked.exceeded,
                                      retry_after |-> checked.retry_after,
                                      current_time |-> now]]
    /\ UNCHANGED <<outside, now>>

\* one call get_remaining_requests(u, LimiterLimit, LimiterWindow)
GetRemainingRequests ==
    /\ \E u \in Subjects :
         in_flight' =
            [in_flight EXCEPT
               !.remaining =
                  [user |-> u, current_time |-> now,
                   remaining |-> get_remaining_requests(rate_limit_cache, u, LimiterLimit,
                                                        LimiterWindow, now).remaining]]
    /\ UNCHANGED <<outside, rate_limit_cache, accepted_calls, now>>

\* a second passes
LimiterTick ==
    /\ now < MaxLimiterClock
    /\ now' = now + 1
    /\ UNCHANGED <<outside, rate_limit_cache, accepted_calls, in_flight>>

LimiterNext ==
    \/ CheckRateLimit
    \/ GetRemainingRequests
    \/ LimiterTick

LimiterSpec == LimiterInit /\ [][LimiterNext]_vars

\* ------------------------------------------------------------------- C36
\* the step is a call of check_rate_limit by subject u
Checks(u) == in_flight'.checked[u].n # in_flight.checked[u].n

\* C36: a rejected call of check_rate_limit leaves the timestamps of its
\* subject as they were; a call of one subject leaves the timestamps of every
\* other subject as they were; a call of Administrator is accepted and leaves
\* every list as it was.
C36_RejectedCallStoresNothing ==
    [][\A u \in Subjects :
          Checks(u) =>
              /\ in_flight'.checked[u].exceeded
                 => rate_limit_cache'[u] = rate_limit_cache[u]
              /\ \A other \in Subjects \ {u} :
                    rate_limit_cache'[other] = rate_limit_cache[other]
              /\ u = "Administrator"
                 => /\ ~in_flight'.checked[u].exceeded
                    /\ rate_limit_cache' = rate_limit_cache]_vars

\* alice was rejected a second after her two calls and after the call of bob,
\* whose timestamp is recorded
C36_Witness ==
    /\ in_flight.job = "rate_limiter"
    /\ in_flight.checked["alice"].exceeded
    /\ in_flight.checked["alice"].current_time = 1
    /\ in_flight.checked["alice"].n > in_flight.checked["bob"].n
    /\ rate_limit_cache["alice"] = <<0, 0>>
    /\ rate_limit_cache["bob"] = <<0>>

\* ------------------------------------------------------------------- C37
\* the oldest timestamp the rejected call counted
OldestCounted(checked) ==
    checked.current_time - (LimiterWindow - checked.retry_after)

\* C37: the call that follows a rejected call of the same subject is accepted
\* when LimiterWindow seconds have passed since the oldest timestamp the
\* rejected call counted; and at every moment get_remaining_requests reports
\* remaining > 0 for a subject exactly when check_rate_limit would accept a
\* call of that subject at that moment.
C37_RejectionEndsWithWindow ==
    /\ [](\A u \in Subjects :
            (get_remaining_requests(rate_limit_cache, u, LimiterLimit, LimiterWindow,
                                    now).remaining > 0)
            <=> ~check_rate_limit(rate_limit_cache, u, LimiterLimit, LimiterWindow,
                                  now).exceeded)
    /\ [][\A u \in Subjects :
            (/\ Checks(u)
             /\ in_flight.checked[u].exceeded
             /\ now - OldestCounted(in_flight.checked[u]) >= LimiterWindow)
            => ~in_flight'.checked[u].exceeded]_vars

\* alice was rejected, then accepted LimiterWindow seconds after her oldest
\* call, and get_remaining_requests reported no request left in between
C37_Witness ==
    /\ in_flight.job = "rate_limiter"
    /\ accepted_calls["alice"] = <<0, 0, LimiterWindow>>
    /\ in_flight.checked["alice"].n = 4
    /\ in_flight.remaining = [user |-> "alice", current_time |-> 2, remaining |-> 0]

\* ------------------------------------------- the rate limiter in steps
\* the calls of check_rate_limit that run side by side
MaxConcurrentChecks == 2

ConcurrentChecks == 1..MaxConcurrentChecks

\* a call that has not read the clock yet
IdleCheck == [step |-> "idle", user |-> None, current_time |-> 0,
              timestamps |-> <<>>, exceeded |-> FALSE]

ChecksInFlight ==
    [job |-> "check_rate_limit", calls |-> 0,
     call |-> [c \in ConcurrentChecks |-> IdleCheck]]

StepsInit ==
    SiteInitFor(Subjects, [sid \in {} |-> NewSession("Administrator")], <<>>, 0,
                "one", ChecksInFlight)

\* check_rate_limit up to cache.get_value: the call holds the time and the
\* list it read
ReadTimestamps ==
    /\ in_flight.calls < MaxLimiterCalls
    /\ \E c \in ConcurrentChecks, u \in Subjects \ {"Administrator"} :
         /\ in_flight.call[c].step = "idle"
         /\ in_flight' =
               [in_flight EXCEPT
                  !.calls = @ + 1,
                  !.call[c] = [step |-> "read", user |-> u, current_time |-> now,
                               timestamps |-> rate_limit_cache[u],
                               exceeded |-> FALSE]]
    /\ UNCHANGED <<outside, rate_limit_cache, accepted_calls, now>>

\* check_rate_limit from the filter to cache.set_value, on the list the call
\* read
WriteBack ==
    /\ \E c \in ConcurrentChecks :
         LET this    == in_flight.call[c]
             checked == check_rate_limit([rate_limit_cache EXCEPT
                                             ![this.user] = this.timestamps],
                                         this.user, LimiterLimit, LimiterWindow,
                                         this.current_time)
         IN  /\ this.step = "read"
             /\ rate_limit_cache' =
                   IF checked.exceeded THEN rate_limit_cache
                   ELSE [rate_limit_cache EXCEPT ![this.user] = checked.cache[this.user]]
             /\ accepted_calls' =
                   IF checked.exceeded THEN accepted_calls
                   ELSE [accepted_calls EXCEPT ![this.user] = Append(@, this.current_time)]
             /\ in_flight' =
                   [in_flight EXCEPT
                      !.call[c] = [IdleCheck EXCEPT !.exceeded = checked.exceeded]]
    /\ UNCHANGED <<outside, now>>

StepsNext ==
    \/ ReadTimestamps
    \/ WriteBack
    \/ LimiterTick

StepsSpec == StepsInit /\ [][StepsNext]_vars

\* ------------------------------------------------------------------- C38
\* the timestamps of the list that lie in the window that ends now
InWindow(timestamps) == SelectSeq(timestamps, LAMBDA ts : now - ts < LimiterWindow)

\* C38 (as claimed): also when calls of check_rate_limit for one subject
\* interleave, the subject has at most LimiterLimit accepted calls in the
\* window that ends now, and the cache holds the timestamp of every one of
\* them.
C38_InterleavedChecksKeepLimit ==
    \A u \in Subjects \ {"Administrator"} :
        /\ Len(InWindow(accepted_calls[u])) <= LimiterLimit
        /\ Len(InWindow(rate_limit_cache[u])) = Len(InWindow(accepted_calls[u]))

\* the two halves of the claim, each by itself
C38_AtMostLimitAccepted ==
    \A u \in Subjects \ {"Administrator"} :
        Len(InWindow(accepted_calls[u])) <= LimiterLimit

C38_NoTimestampLost ==
    \A u \in Subjects \ {"Administrator"} :
        Len(InWindow(rate_limit_cache[u])) >= Len(InWindow(accepted_calls[u]))

\* ------------------------------------------------------------------- C39
\* the invariant of the Chart Descriptor
WellFormedChart(chart) ==
    /\ {"chart_type", "labels", "values"} \subseteq DOMAIN chart
    /\ chart.chart_type \in {"bar", "line", "pie"}
    /\ Len(chart.labels) = Len(chart.values)
    /\ Len(chart.labels) >= 2

\* the object of the first chart block of the answer, NoChart without one
BlockObject(text) ==
    IF text = NoText \/ \A i \in DOMAIN text : GroupsAt(text, i) = {} THEN NoChart
    ELSE IF ChartGroup(text).first # ChartGroup(text).last THEN NoChart
    ELSE ChartObject(text[ChartGroup(text).first])

\* C39 (as claimed): the chart a turn returns has a chart_type of bar, line
\* or pie and labels and values of one length with at least 2 elements; a
\* turn whose answer has no block, or a block whose object is malformed or
\* breaks this, succeeds as well and returns no chart.
C39_ReturnedChartIsDescriptor ==
    (pc = "done" /\ raised = None /\ result.success) =>
        IF WellFormedChart(BlockObject(response_text))
        THEN result.chart = BlockObject(response_text)
        ELSE result.chart = NoChart

\* the check _parse_chart_from_response makes: the three keys and the type
HasFieldsAndType(chart) ==
    /\ {"chart_type", "labels", "values"} \subseteq DOMAIN chart
    /\ chart.chart_type \in {"bar", "line", "pie"}

\* what the turn returns instead: the object of the block when it has the
\* three keys and a chart_type of bar, line or pie, whatever the lengths
C39_ReturnedChartHasFieldsAndType ==
    (pc = "done" /\ raised = None /\ result.success) =>
        IF HasFieldsAndType(BlockObject(response_text))
        THEN result.chart = BlockObject(response_text)
        ELSE result.chart = NoChart

\* --------------------------------------------- the detection of the type
\* chart_data_builder.CHART_TYPE_KEYWORDS
CHART_TYPE_KEYWORDS ==
    [line |-> {"trend", "over time", "growth", "progress", "evolution", "history",
               "months", "years", "quarterly"},
     bar  |-> {"top", "comparison", "ranking", "by category", "by department",
               "by customer", "by product"},
     pie  |-> {"distribution", "breakdown", "share", "percentage", "proportion",
               "composition", "among"}]

\* line_keywords, bar_keywords and pie_keywords of response_formatter
FormatterKeywords ==
    [line |-> CHART_TYPE_KEYWORDS.line \cup {"over the past"},
     bar  |-> CHART_TYPE_KEYWORDS.bar \cup {"list", "show me"},
     pie  |-> CHART_TYPE_KEYWORDS.pie]

\* the phrases a query of the model is made of; a query is their sequence,
\* the phrases kept apart by punctuation
QueryPhrases ==
    {"Pie Chart", "bar chart", "line chart", "donut chart", "trend", "growth",
     "history", "TOP", "ranking", "growth by customer", "share", "breakdown",
     "list", "revenue"}

\* the longest query
MaxQueryLength == 3

Queries == UNION {[1..n -> QueryPhrases] : n \in 1..MaxQueryLength}

\* str.lower() of a phrase
lower(phrase) ==
    CASE phrase = "Pie Chart" -> "pie chart"
      [] phrase = "TOP" -> "top"
      [] OTHER -> phrase

\* the keywords and explicit mentions that are substrings of a lower-case
\* phrase
Within(phrase) ==
    IF phrase = "growth by customer" THEN {"growth", "by customer"}
    ELSE IF phrase = "revenue" THEN {}
    ELSE {phrase}

\* kw in query_lower
In(kw, query_lower) == \E i \in DOMAIN query_lower : kw \in Within(query_lower[i])

\* sum(1 for kw in keywords if kw in query_lower)
Score(keywords, query_lower) == Cardinality({kw \in keywords : In(kw, query_lower)})

\* ChartDataBuilder.detect_chart_type and response_formatter.detect_chart_type,
\* which differ in the keywords given
detect_chart_type(query, keywords) ==
    LET query_lower == [i \in DOMAIN query |-> lower(query[i])]
        line_score  == Score(keywords.line, query_lower)
        bar_score   == Score(keywords.bar, query_lower)
        pie_score   == Score(keywords.pie, query_lower)
    IN  IF In("pie chart", query_lower) \/ In("donut chart", query_lower) THEN "pie"
        ELSE IF In("bar chart", query_lower) THEN "bar"
        ELSE IF In("line chart", query_lower) \/ In("trend", query_lower) THEN "line"
        ELSE IF bar_score >= line_score /\ bar_score >= pie_score THEN "bar"
        ELSE IF line_score > bar_score /\ line_score >= pie_score THEN "line"
        ELSE "pie"

\* one call of the method of the ChartDataBuilder
BuilderDetectChartType ==
    /\ builder_call = NoCall
    /\ \E query \in Queries :
         /\ builder_call' = [method |-> "ChartDataBuilder.detect_chart_type",
                             query |-> query, keywords |-> CHART_TYPE_KEYWORDS]
         /\ builder_result' =
               [chart_type |-> detect_chart_type(query, CHART_TYPE_KEYWORDS)]
    /\ UNCHANGED site

\* one call of the function of response_formatter
FormatterDetectChartType ==
    /\ builder_call = NoCall
    /\ \E query \in Queries :
         /\ builder_call' = [method |-> "response_formatter.detect_chart_type",
                             query |-> query, keywords |-> FormatterKeywords]
         /\ builder_result' =
               [chart_type |-> detect_chart_type(query, FormatterKeywords)]
    /\ UNCHANGED site

DetectNext ==
    \/ BuilderDetectChartType
    \/ FormatterDetectChartType

DetectSpec == ApiInit /\ [][DetectNext]_vars

\* ------------------------------------------------------------------- C40
\* the query of the call, in lower case, and the scores of its keywords
CalledLower == [i \in DOMAIN builder_call.query |-> lower(builder_call.query[i])]

ScoreOf(type) == Score(builder_call.keywords[type], CalledLower)

\* the types the query names with the phrases pie chart and bar chart
NamedTypes ==
    {type \in {"pie", "bar"} :
        In(IF type = "pie" THEN "pie chart" ELSE "bar chart", CalledLower)}

\* the types whose score no other type exceeds
HighestTypes ==
    {type \in {"line", "bar", "pie"} :
        \A other \in {"line", "bar", "pie"} : ScoreOf(other) <= ScoreOf(type)}

\* C40 (as claimed): the detection returns the type the query names with the
\* phrase pie chart or bar chart; without such a phrase it returns the type
\* whose keywords score strictly highest, and bar when two or more types share
\* the highest score, also when these are line and pie only.
C40_NamedTypeElseHighestElseBar ==
    builder_call # NoCall =>
        IF NamedTypes # {} THEN builder_result.chart_type \in NamedTypes
        ELSE IF Cardinality(HighestTypes) = 1
        THEN builder_result.chart_type \in HighestTypes
        ELSE builder_result.chart_type = "bar"

\* the part of the claim on the tie between line and pie
C40_LinePieTieGivesBar ==
    (/\ builder_call # NoCall
     /\ NamedTypes = {}
     /\ HighestTypes = {"line", "pie"}
     /\ ~In("line chart", CalledLower) /\ ~In("trend", CalledLower)
     /\ ~In("donut chart", CalledLower))
    => builder_result.chart_type = "bar"

\* the claim on the queries without the words line chart, donut chart and
\* trend and without a tie between line and pie
C40_HoldsApartFromTieAndMentions ==
    (/\ builder_call # NoCall
     /\ HighestTypes # {"line", "pie"}
     /\ ~In("line chart", CalledLower) /\ ~In("trend", CalledLower)
     /\ ~In("donut chart", CalledLower))
    => IF NamedTypes # {} THEN builder_result.chart_type \in NamedTypes
       ELSE IF Cardinality(HighestTypes) = 1
       THEN builder_result.chart_type \in HighestTypes
       ELSE builder_result.chart_type = "bar"

====
